---- MODULE Spec2Model ----
(***************************************************************************)
(* State-machine model of the mcp-archetypes clients and servers.          *)
(*                                                                         *)
(*   SpecTools : the two weather tool clients (local stdio transport and   *)
(*               OAuth network transport): connection set-up, the chat     *)
(*               loop, process_query, and the release of the connection.   *)
(*   SpecBatch : the two one-shot clients: the blog-post client (prompt    *)
(*               chain) and the sales-data client (resources).             *)
(*   SpecServers : the calls served by the sales resource server           *)
(*               (get_sales), the weather server (get_alerts,              *)
(*               get_forecast) and the space news server                   *)
(*               (get_todays_spacenews).                                   *)
(*                                                                         *)
(* Text is modelled as a sequence of tokens.  A token is a record          *)
(* [q, v]: v is the piece of text, q the number of the chat turn whose     *)
(* input, LLM reply or tool result the piece came from (0 for literals of  *)
(* the program).  String concatenation is sequence concatenation.          *)
(***************************************************************************)
EXTENDS Integers, Sequences, FiniteSets, TLC

\* ------------------------------------------------------------------ bounds
\* Number of queries one chat session may process before `quit`.
MaxQueries == 2
\* Number of content blocks in the initial LLM reply of a query.
MaxBlocks == 2

VARIABLES
    prog,        \* which program runs: "local" | "oauth" | "blog" | "sales"
    pc,          \* position of the program
    exit_stack,  \* resources held by the scoped-acquisition stack, oldest first
    acquired,    \* observation: resources acquired, in order
    released,    \* observation: resources released, in order
    turn,        \* number of input lines read so far
    query,       \* process_query's argument
    messages,    \* process_query's message history
    assistant_message_content,   \* the accumulator every assistant message aliases
    final_text,  \* process_query's output buffer
    reply,       \* content of the initial LLM reply being iterated
    idx,         \* position of the for loop in reply
    requests,    \* observation: message lists sent to the LLM by the current call
    invocations, \* observation: tool invocations of the current call
    followups,   \* observation: follow-up replies received by the current call
    response,    \* value returned by the last completed process_query
    exc,         \* exception in flight (NoExc when none)
    printed,     \* what the current loop iteration / set-up printed
    \* ---- the one-shot clients
    entry,       \* "script": started through main; "library": run called by an importer
    nargs,       \* number of command-line arguments after the program name
    script_is_file,  \* os.path.isfile(mcp_server_script)
    code_is_file,    \* os.path.isfile(code_file)
    status,      \* "running" | "exit0" | "exit1" | "returned" | "raised"
    trace,       \* observation: server calls and LLM calls, in order
    code,        \* blog client: text of the code file
    keywords,    \* blog client: value returned by run_keyword_prompt
    intro,       \* blog client: value returned by run_intro_prompt
    main_part,   \* blog client: value returned by run_main_prompt
    result,      \* value returned by run (blogpost / model_response)
    resources,   \* sales client: list_resources result
    resource_templates,  \* sales client: list_resource_templates result
    readme_content,      \* sales client
    month_sales,         \* sales client
    inputs,      \* sales client: month, year, query read from standard input
    \* ---- the servers
    tool,        \* the tool or resource function serving the current call ("" when idle)
    call_args,   \* its arguments
    world,       \* what lies outside the server during the call: files, HTTP answers
    http,        \* observation: URLs requested by the current call, in order
    fetched,     \* values make_nws_request returned to the current call, in order
    sales_csv_file,  \* get_sales: the resolved path
    sampled,     \* observation: prompts the current call passed to ctx.sample, in order
    ret          \* outcome of the current call: nothing yet, a returned value, or an error

sharedVars == <<prog, pc, exit_stack, acquired, released, exc, printed>>

toolOnlyVars == <<turn, query, messages, assistant_message_content, final_text,
                  reply, idx, requests, invocations, followups, response>>

toolVars == <<prog, pc, exit_stack, acquired, released, turn, query, messages,
              assistant_message_content, final_text, reply, idx, requests,
              invocations, followups, response, exc, printed>>

batchVars == <<entry, nargs, script_is_file, code_is_file, status, trace, code,
               keywords, intro, main_part, result, resources, resource_templates,
               readme_content, month_sales, inputs>>

serverVars == <<tool, call_args, world, http, fetched, sales_csv_file, sampled, ret>>

vars == <<toolVars, batchVars, serverVars>>

\* ------------------------------------------------------------------ text
Lit(s) == [q |-> 0, v |-> s]
Tok(q, s) == [q |-> q, v |-> s]

RECURSIVE Join(_, _)
\* sep.join(parts)
Join(parts, sep) ==
    IF parts = <<>> THEN <<>>
    ELSE IF Len(parts) = 1 THEN parts[1]
    ELSE parts[1] \o sep \o Join(Tail(parts), sep)

NL == <<Lit("\n")>>

RECURSIVE Reverse(_)
Reverse(s) == IF s = <<>> THEN <<>> ELSE Append(Reverse(Tail(s)), Head(s))

\* --------------------------------------------------------------- exceptions
\* base = TRUE: a BaseException that is not an Exception (KeyboardInterrupt).
\* msg: the message the program gives the exception ("" when it gives none).
NoExc == [type |-> "", base |-> FALSE, msg |-> ""]
Exc(t) == [type |-> t, base |-> FALSE, msg |-> ""]
ExcMsg(t, m) == [type |-> t, base |-> FALSE, msg |-> m]
BaseExc(t) == [type |-> t, base |-> TRUE, msg |-> ""]

\* ------------------------------------------------------------ content blocks
TextBlock(t) ==
    [kind |-> "text", text |-> t, name |-> Lit(""), input |-> Lit(""),
     id |-> Lit(""), content |-> <<>>]
ToolUseBlock(n, a, i) ==
    [kind |-> "toolUse", text |-> <<>>, name |-> n, input |-> a,
     id |-> i, content |-> <<>>]
ToolResultBlock(i, c) ==
    [kind |-> "toolResult", text |-> <<>>, name |-> Lit(""), input |-> Lit(""),
     id |-> i, content |-> c]
\* a block that carries neither 'text' nor 'toolUse' (e.g. reasoningContent)
OtherBlock ==
    [kind |-> "other", text |-> <<>>, name |-> Lit(""), input |-> Lit(""),
     id |-> Lit(""), content |-> <<>>]

\* ------------------------------------------------------- environment: inputs
\* Raw input lines, as character sequences.
Lines ==
    { <<"q", "u", "i", "t">>,
      <<" ", "Q", "u", "I", "T", " ">>,
      <<"q", "u", "i", "t", "s">>,
      <<" ", "h", "i">> }

LowerChar(c) ==
    CASE c = "Q" -> "q"
      [] c = "U" -> "u"
      [] c = "I" -> "i"
      [] c = "T" -> "t"
      [] OTHER -> c

\* str.lower()
Lower(s) == [i \in 1..Len(s) |-> LowerChar(s[i])]

RECURSIVE LStrip(_)
LStrip(s) == IF s # <<>> /\ Head(s) = " " THEN LStrip(Tail(s)) ELSE s

\* str.strip()
Strip(s) == Reverse(LStrip(Reverse(LStrip(s))))

Quit == <<"q", "u", "i", "t">>

\* The text of query number q, each character tagged with the turn.
QueryText(q, s) == [i \in 1..Len(s) |-> Tok(q, s[i])]

\* --------------------------------------------------- environment: LLM, tools
ToolCalls == { <<"get_alerts", "{'state': 'CA'}", "id1">>,
               <<"get_forecast", "{'latitude': 1, 'longitude': 2}", "id2">> }

TextVals == {"a", "b"}

InitialBlocks(q) ==
    { TextBlock(<<Tok(q, t)>>) : t \in TextVals }
    \cup { ToolUseBlock(Tok(q, c[1]), Tok(q, c[2]), Tok(q, c[3])) : c \in ToolCalls }
    \cup { OtherBlock }

\* Contents of the first LLM reply of turn q.
Replies(q) == UNION { [1..n -> InitialBlocks(q)] : n \in 0..MaxBlocks }

FollowToolUse(q) == ToolUseBlock(Tok(q, "get_alerts"), Tok(q, "{'state': 'NY'}"), Tok(q, "id3"))

\* Contents of a follow-up LLM reply of turn q.
FollowReplies(q) ==
    { <<>>,
      <<TextBlock(<<Tok(q, "f")>>)>>,
      <<TextBlock(<<Tok(q, "g")>>), FollowToolUse(q)>>,
      <<FollowToolUse(q)>> }

TextItem(t) == [type |-> "text", text |-> t]
ImageItem == [type |-> "image", text |-> <<>>]

\* Result contents a tool call of turn q may return.
ToolResults(q) ==
    { <<ImageItem>>,
      <<TextItem(<<Tok(q, "r1")>>), ImageItem, TextItem(<<Tok(q, "r2")>>)>> }


\* ------------------------------------------------------------ process_query
\* Mutant: the previous query is kept as conversation history.
InitialMessagesWithHistory(qtext) ==
    << [role |-> "user", content |-> <<TextBlock(query)>>, alias |-> FALSE],
       [role |-> "user", content |-> <<TextBlock(qtext)>>, alias |-> FALSE] >>

\* Lines 107-112: the message history of a call starts with the query alone.
InitialMessages(qtext) ==
    << [role |-> "user", content |-> <<TextBlock(qtext)>>, alias |-> FALSE] >>

\* Mutant: the message that carries the tool-use block has the user role.
AssistantMessageAsUser == [role |-> "user", content |-> <<>>, alias |-> TRUE]

\* An assistant message holds a reference to assistant_message_content, not
\* a copy: what is sent is the accumulator's value at the time of sending.
AssistantMessage == [role |-> "assistant", content |-> <<>>, alias |-> TRUE]

UserMessage(blocks) == [role |-> "user", content |-> blocks, alias |-> FALSE]

\* The message list as the LLM service receives it.
Materialize(msgs, amc) ==
    [i \in 1..Len(msgs) |->
        [role |-> msgs[i].role,
         content |-> IF msgs[i].alias THEN amc ELSE msgs[i].content]]

\* Lines 172-174
ToolName(block) == block.name
ToolArgs(block) == block.input
\* Mutant: the id is read from the wrong field of the tool-use block.
ToolUseIdFromName(block) == block.name
ToolUseId(block) == block.id

\* Mutant: every item of the tool result is kept.
ToolResultContentUnfiltered(items) == [i \in 1..Len(items) |-> items[i].text]

RECURSIVE ToolResultContent(_)
\* Lines 179-184: the text-typed items of the tool result, in order.
ToolResultContent(items) ==
    IF items = <<>> THEN <<>>
    ELSE IF Head(items).type = "text"
         THEN <<Head(items).text>> \o ToolResultContent(Tail(items))
         ELSE ToolResultContent(Tail(items))

\* Line 186
Diagnostic(name, args) ==
    <<Lit("[Calling tool "), name, Lit(" with args "), args, Lit("]")>>

\* Mutant: the blocks of a follow-up reply are processed as well.
AfterFollowUpChained(rep, followup) == rep \o followup

\* Lines 165, 207: the follow-up reply rebinds `response`; the for loop keeps
\* iterating over the content list of the initial reply.
AfterFollowUp(rep, followup) == rep

\* Mutant: a first block without text counts as empty text.
FollowUpTextLenient(content) ==
    IF content = <<>> THEN [ok |-> FALSE, text |-> <<>>, err |-> "IndexError"]
    ELSE [ok |-> TRUE, text |-> content[1].text, err |-> ""]

\* Line 214: response['output']['message']['content'][0]['text']
FollowUpText(content) ==
    IF content = <<>> THEN [ok |-> FALSE, text |-> <<>>, err |-> "IndexError"]
    ELSE IF content[1].kind # "text" THEN [ok |-> FALSE, text |-> <<>>, err |-> "KeyError"]
    ELSE [ok |-> TRUE, text |-> content[1].text, err |-> ""]

\* Mutant: the buffer is joined without the newline separator.
ReturnValueNoSeparator(buffer) == Join(buffer, <<>>)

\* Line 216
ReturnValue(buffer) == Join(buffer, NL)

\* Mutant: the handler leaves the loop.
AfterCaughtBreak == "finally"

\* Where the chat loop goes after an exception it caught (lines 228, 239-240).
AfterCaught == "input"

\* Mutant: end of input is not caught.
CatchesAllButEof(e) == ~e.base /\ e.type # "EOFError"

\* `except Exception` (line 239)
Catches(e) == ~e.base

\* Mutant: exit callbacks run in acquisition order.
ReleaseOrderFifo(stack) == stack

\* AsyncExitStack.aclose (line 220): exit callbacks run last-in first-out.
ReleaseOrder(stack) == Reverse(stack)

\* ================================================== one-shot clients: values
\* A piece of text of the one-shot clients: q names where the piece comes
\* from ("lit": the programs' own literals, "code": the code file,
\* "keyword_reply", "intro_reply", "main_reply", "aggregate_reply",
\* "server", "stdin", "llm"), k its lexical kind ("word", "str": a JSON string
\* literal with content v, "punct", "ws", "fence": three backticks followed
\* by v), v the text.
BTok(q, k, v) == [q |-> q, k |-> k, v |-> v]
BLit(v) == BTok("lit", "word", v)
NoTok == BTok("lit", "", "")

\* Python values: str, list, dict (xs: its items, each a key with one value),
\* None.
PyNone == [t |-> "none", s |-> NoTok, xs |-> <<>>]
PyStr(tok) == [t |-> "str", s |-> tok, xs |-> <<>>]
PyList(xs) == [t |-> "list", s |-> NoTok, xs |-> xs]
PyItem(key, val) == [t |-> "item", s |-> key, xs |-> <<val>>]
PyDict(items) == [t |-> "dict", s |-> NoTok, xs |-> items]

\* ------------------------------------------------------------- json.loads
ParseFail == [ok |-> FALSE, val |-> PyNone, rest |-> <<>>]
ParseOk(v, rest) == [ok |-> TRUE, val |-> v, rest |-> rest]

RECURSIVE SkipWs(_)
SkipWs(ts) == IF ts # <<>> /\ Head(ts).k = "ws" THEN SkipWs(Tail(ts)) ELSE ts

IsPunct(ts, c) == ts # <<>> /\ Head(ts).k = "punct" /\ Head(ts).v = c

RECURSIVE ParseValue(_), ParseElems(_, _), ParseMembers(_, _)
\* One JSON value at the head of ts.
ParseValue(ts) ==
    LET t == SkipWs(ts) IN
    IF t = <<>> THEN ParseFail
    ELSE IF Head(t).k = "str" THEN ParseOk(PyStr(Head(t)), Tail(t))
    ELSE IF IsPunct(t, "[")
         THEN IF IsPunct(SkipWs(Tail(t)), "]")
              THEN ParseOk(PyList(<<>>), Tail(SkipWs(Tail(t))))
              ELSE ParseElems(Tail(t), <<>>)
    ELSE IF IsPunct(t, "{")
         THEN IF IsPunct(SkipWs(Tail(t)), "}")
              THEN ParseOk(PyDict(<<>>), Tail(SkipWs(Tail(t))))
              ELSE ParseMembers(Tail(t), <<>>)
    ELSE ParseFail

\* The elements of an array, after "[" or ",".
ParseElems(ts, acc) ==
    LET r == ParseValue(ts) IN
    IF ~r.ok THEN ParseFail
    ELSE LET t == SkipWs(r.rest) IN
         IF IsPunct(t, ",") THEN ParseElems(Tail(t), Append(acc, r.val))
         ELSE IF IsPunct(t, "]") THEN ParseOk(PyList(Append(acc, r.val)), Tail(t))
         ELSE ParseFail

\* The members of an object, after "{" or ",".
ParseMembers(ts, acc) ==
    LET t == SkipWs(ts) IN
    IF t = <<>> \/ Head(t).k # "str" THEN ParseFail
    ELSE LET c == SkipWs(Tail(t)) IN
         IF ~IsPunct(c, ":") THEN ParseFail
         ELSE LET r == ParseValue(Tail(c)) IN
              IF ~r.ok THEN ParseFail
              ELSE LET u == SkipWs(r.rest)
                       item == PyItem(Head(t), r.val)
                   IN IF IsPunct(u, ",") THEN ParseMembers(Tail(u), Append(acc, item))
                      ELSE IF IsPunct(u, "}") THEN ParseOk(PyDict(Append(acc, item)), Tail(u))
                      ELSE ParseFail

\* json.loads(text): [ok, val]; not ok stands for JSONDecodeError.
JsonLoads(ts) ==
    LET r == ParseValue(ts) IN
    IF r.ok /\ SkipWs(r.rest) = <<>> THEN r ELSE ParseFail

RECURSIVE Remove(_, _)
\* text.replace(three backticks + fence, "")
Remove(ts, fence) ==
    IF ts = <<>> THEN <<>>
    ELSE IF Head(ts).k = "fence" /\ Head(ts).v = fence THEN Remove(Tail(ts), fence)
    ELSE IF Head(ts).k = "fence" /\ fence = ""
         THEN <<[Head(ts) EXCEPT !.k = "word"]>> \o Remove(Tail(ts), fence)
    ELSE <<Head(ts)>> \o Remove(Tail(ts), fence)

\* Blog client, line 81
StripFences(ts) == Remove(Remove(ts, "json"), "")

\* Blog client, lines 82, 86: the parsed JSON value is returned as it is.
ParsedKeywords(parsed) == parsed

\* Mutant: the parser's own error leaves the step.
KeywordParseErrorUnwrapped == [type |-> "JSONDecodeError", base |-> FALSE, msg |-> "Expecting value"]

\* Blog client, lines 83-84: what the step raises when the reply does not parse.
KeywordParseError == ExcMsg("ValueError", "Error Loading Keyword Response")

\* Mutant: the file checks are not evaluated.
AssertStripped(is_file) == TRUE

\* Blog client lines 38 and 211, sales client line 48:
\* `assert os.path.isfile(path)` passes exactly when the path is a file.
AssertIsFile(is_file) == is_file

\* ----------------------------------------------------- str() of a Python value
RECURSIVE PyRepr(_), PyReprItems(_)
PyRepr(v) ==
    IF v.t = "str" THEN <<BLit("'"), v.s, BLit("'")>>
    ELSE IF v.t = "list" THEN <<BLit("[")>> \o PyReprItems(v.xs) \o <<BLit("]")>>
    ELSE IF v.t = "dict" THEN <<BLit("{")>> \o PyReprItems(v.xs) \o <<BLit("}")>>
    ELSE IF v.t = "item" THEN <<BLit("'"), v.s, BLit("'"), BLit(": ")>> \o PyRepr(v.xs[1])
    ELSE <<BLit("None")>>

PyReprItems(xs) ==
    IF xs = <<>> THEN <<>>
    ELSE IF Tail(xs) = <<>> THEN PyRepr(Head(xs))
    ELSE PyRepr(Head(xs)) \o <<BLit(", ")>> \o PyReprItems(Tail(xs))

\* ------------------------------------------- the prompt server's templates
\* io_prompt_server.py: each template is literal text around its parameters.
get_keywords_from_code(c) ==
    <<BLit("ROLE ... Return the keywords as STRICT JSON ... CODE")>> \o c
create_intro_from_code(kws) ==
    <<BLit("ROLE ... Write an intro section ... KEYWORDS")>> \o PyRepr(kws)
create_main_section_from_code(kws, c) ==
    <<BLit("ROLE ... main part of the blogpost ... KEYWORDS")>> \o PyRepr(kws)
    \o <<BLit("INPUT CODE")>> \o c
aggregate_blog_sections(i, m, o) ==
    <<BLit("ROLE ... Combine ... INTRO")>> \o i \o <<BLit("INPUT MAIN")>> \o m
    \o <<BLit("OUTLOOK")>> \o o

\* The arguments of a get_prompt call; unused ones keep their empty value.
NoArgs == [code |-> <<>>, keywords |-> PyNone, intro |-> <<>>, main |-> <<>>, outlook |-> <<>>]

\* What the server renders for a get_prompt call.
Render(name, args) ==
    CASE name = "Get Keywords From Code" -> get_keywords_from_code(args.code)
      [] name = "Get Intro From Keywords" -> create_intro_from_code(args.keywords)
      [] name = "Get Main Section From Code" -> create_main_section_from_code(args.keywords, args.code)
      [] name = "Aggregate Blog Sections" -> aggregate_blog_sections(args.intro, args.main, args.outlook)
      [] OTHER -> <<>>

\* Blog client, lines 64-72: the user message built around str(prompt result).
MessageText(prompt) ==
    <<BLit("\n"), BLit("GetPromptResult(")>> \o prompt \o <<BLit(")"), BLit("\n")>>

\* Blog client, lines 234 and 239
FixedKeywords ==
    PyList(<< PyStr(BTok("lit", "str", "MCP")), PyStr(BTok("lit", "str", "FastMCP")),
              PyStr(BTok("lit", "str", "Prompts")) >>)

\* Blog client, lines 243-245
outlook_text == <<BLit("If you want to learn more about MCP, ... visit www.evo-byte.com")>>

\* Mutant: the extracted keywords are passed on.
ExtractedKeywords(kws) == kws

\* Blog client, lines 233-235: the keywords run_intro_prompt is called with
\* (kws: the value of the local `keywords`).
IntroKeywords(kws) == FixedKeywords

\* Blog client, lines 238-241: the keywords run_main_prompt is called with.
MainKeywords(kws) == FixedKeywords

\* Mutant: intro and main are passed in each other's place.
AggregateArgsSwapped(i, m, o) == [NoArgs EXCEPT !.intro = m, !.main = i, !.outlook = o]

\* Blog client, lines 248-252 and 175-178
AggregateArgs(i, m, o) == [NoArgs EXCEPT !.intro = i, !.main = m, !.outlook = o]

\* --------------------------------------------------------- trace of calls
\* A server call or LLM call: open records whether the connection was open,
\* reply the content blocks the LLM answered with (empty when the call failed).
ServerCall(op, name, args, uri) ==
    [op |-> op, name |-> name, args |-> args, uri |-> uri, text |-> <<>>,
     system |-> <<>>, reply |-> <<>>, open |-> exit_stack # <<>>]
LlmCall(text, system, content) ==
    [op |-> "converse", name |-> "", args |-> NoArgs, uri |-> <<>>, text |-> text,
     system |-> system, reply |-> content, open |-> exit_stack # <<>>]

\* Mutant: an error inside the connection scope ends the program at once.
AfterRaiseSkipsExit == "done"

\* Where an exception raised inside `async with self.client:` goes: the
\* scope's exit runs before the exception leaves run.
AfterRaiseInScope == "aexit"

\* ------------------------------------------------------ outcome of a call
\* text: a returned string; val: a returned structure; err, msg: the type of
\* a raised error and the pieces of its message.
NoRet == [kind |-> "none", text |-> <<>>, val |-> PyNone, err |-> "", msg |-> <<>>]
ReturnText(ts) == [NoRet EXCEPT !.kind = "return", !.text = ts]
ReturnVal(v) == [NoRet EXCEPT !.kind = "return", !.val = v]
Raise(e, m) == [NoRet EXCEPT !.kind = "raise", !.err = e, !.msg = m]

NoCallArgs == [year |-> "", month |-> "", state |-> "", latitude |-> "", longitude |-> "",
               language |-> ""]
\* What ctx.sample does when it is called: it answers or it raises.
NoSample == [kind |-> "none", val |-> PyNone, base |-> FALSE]
NoWorld == [files |-> {}, answers |-> <<>>, sample |-> NoSample]

\* The servers' variables while no call is being served.
ServersIdle ==
    /\ tool = ""
    /\ call_args = NoCallArgs
    /\ world = NoWorld
    /\ http = <<>>
    /\ fetched = <<>>
    /\ sales_csv_file = ""
    /\ sampled = <<>>
    /\ ret = NoRet

\* The one-shot clients' variables while a tool client runs.
BatchIdle ==
    /\ entry = "script"
    /\ nargs = 0
    /\ script_is_file = TRUE
    /\ code_is_file = TRUE
    /\ status = "running"
    /\ trace = <<>>
    /\ code = <<>>
    /\ keywords = PyNone
    /\ intro = <<>>
    /\ main_part = <<>>
    /\ result = <<>>
    /\ resources = <<>>
    /\ resource_templates = <<>>
    /\ readme_content = <<>>
    /\ month_sales = <<>>
    /\ inputs = [month |-> <<>>, year |-> <<>>, query |-> <<>>]

\* The tool clients' variables while a one-shot client runs.
ToolsIdle ==
    /\ turn = 0
    /\ query = <<>>
    /\ messages = <<>>
    /\ assistant_message_content = <<>>
    /\ final_text = <<>>
    /\ reply = <<>>
    /\ idx = 1
    /\ requests = <<>>
    /\ invocations = <<>>
    /\ followups = <<>>
    /\ response = <<>>

\* --------------------------------------------------------------- set-up
InitTools ==
    /\ prog \in {"local", "oauth"}
    /\ pc = IF prog = "local" THEN "connect_stdio" ELSE "client_enter"
    /\ exit_stack = <<>>
    /\ acquired = <<>>
    /\ released = <<>>
    /\ turn = 0
    /\ query = <<>>
    /\ messages = <<>>
    /\ assistant_message_content = <<>>
    /\ final_text = <<>>
    /\ reply = <<>>
    /\ idx = 1
    /\ requests = <<>>
    /\ invocations = <<>>
    /\ followups = <<>>
    /\ response = <<>>
    /\ exc = NoExc
    /\ printed = <<>>
    /\ BatchIdle
    /\ ServersIdle

callVars == <<query, messages, assistant_message_content, final_text, reply, idx,
              requests, invocations, followups>>
stackVars == <<exit_stack, acquired, released>>

\* connect_to_server, line 88: spawn the server process and open its streams.
ConnectStdio ==
    /\ prog = "local" /\ pc = "connect_stdio"
    /\ \/ /\ exit_stack' = Append(exit_stack, "stdio_transport")
          /\ acquired' = Append(acquired, "stdio_transport")
          /\ pc' = "connect_session"
          /\ UNCHANGED exc
       \/ /\ exc' = Exc("OSError")
          /\ pc' = "finally"
          /\ UNCHANGED <<exit_stack, acquired>>
    /\ UNCHANGED <<prog, released, turn, callVars, response, printed>>
    /\ UNCHANGED <<batchVars, serverVars>>

\* connect_to_server, line 93: open the protocol session on the streams.
ConnectSession ==
    /\ prog = "local" /\ pc = "connect_session"
    /\ \/ /\ exit_stack' = Append(exit_stack, "session")
          /\ acquired' = Append(acquired, "session")
          /\ pc' = "connect_initialize"
          /\ UNCHANGED exc
       \/ /\ exc' = Exc("RuntimeError")
          /\ pc' = "finally"
          /\ UNCHANGED <<exit_stack, acquired>>
    /\ UNCHANGED <<prog, released, turn, callVars, response, printed>>
    /\ UNCHANGED <<batchVars, serverVars>>

\* connect_to_server, line 95
ConnectInitialize ==
    /\ prog = "local" /\ pc = "connect_initialize"
    /\ \/ /\ pc' = "connect_tools" /\ UNCHANGED exc
       \/ /\ exc' = Exc("McpError") /\ pc' = "finally"
    /\ UNCHANGED <<prog, stackVars, turn, callVars, response, printed>>
    /\ UNCHANGED <<batchVars, serverVars>>

\* connect_to_server, lines 97-99
ConnectListTools ==
    /\ prog = "local" /\ pc = "connect_tools"
    /\ \/ /\ printed' = Append(printed, [kind |-> "info", what |-> "Connected to server with tools"])
          /\ pc' = "input"
          /\ UNCHANGED exc
       \/ /\ exc' = Exc("McpError") /\ pc' = "finally"
          /\ UNCHANGED printed
    /\ UNCHANGED <<prog, stackVars, turn, callVars, response>>
    /\ UNCHANGED <<batchVars, serverVars>>

\* OAuth client, line 146: entering `async with Client(...)`.
ClientEnter ==
    /\ prog = "oauth" /\ pc = "client_enter"
    /\ \/ /\ exit_stack' = Append(exit_stack, "client")
          /\ acquired' = Append(acquired, "client")
          /\ printed' = Append(printed, [kind |-> "info", what |-> "Authenticated with GitHub!"])
          /\ pc' = "oauth_list_tools"
          /\ UNCHANGED exc
       \/ /\ exc' = Exc("ConnectError")
          /\ pc' = "done"
          /\ UNCHANGED <<exit_stack, acquired, printed>>
    /\ UNCHANGED <<prog, released, turn, callVars, response>>
    /\ UNCHANGED <<batchVars, serverVars>>

\* OAuth client, lines 152-155
OAuthListTools ==
    /\ prog = "oauth" /\ pc = "oauth_list_tools"
    /\ \/ /\ printed' = Append(printed, [kind |-> "info", what |-> "Connected to server with tools"])
          /\ pc' = "smoke_test"
          /\ UNCHANGED exc
       \/ /\ exc' = Exc("McpError") /\ pc' = "finally"
          /\ UNCHANGED printed
    /\ UNCHANGED <<prog, stackVars, turn, callVars, response>>
    /\ UNCHANGED <<batchVars, serverVars>>

\* Mutant: a failed smoke test ends the program.
AfterSmokeTestErrorFatal == "finally"

\* OAuth client, lines 162-166: after the handler the program goes on to the
\* chat loop.
AfterSmokeTestError == "input"

\* OAuth client, lines 158-160: the get_user_info smoke test.  The call may
\* fail, reading the user name from its result may fail, and the task may be
\* cancelled while it waits.
SmokeTest ==
    /\ prog = "oauth" /\ pc = "smoke_test"
    /\ \/ /\ printed' = Append(printed, [kind |-> "info", what |-> "GitHub user"])
          /\ pc' = "input"
          /\ UNCHANGED exc
       \/ /\ exc' \in {Exc("ToolError"), Exc("TypeError"), BaseExc("CancelledError")}
          /\ pc' = "smoke_except"
          /\ UNCHANGED printed
    /\ UNCHANGED <<prog, stackVars, turn, callVars, response>>
    /\ UNCHANGED <<batchVars, serverVars>>

\* OAuth client, lines 162-163: `except Exception` prints the error.
SmokeTestExcept ==
    /\ prog = "oauth" /\ pc = "smoke_except"
    /\ IF Catches(exc)
       THEN /\ printed' = Append(printed, [kind |-> "error", what |-> exc.type])
            /\ exc' = NoExc
            /\ pc' = AfterSmokeTestError
       ELSE /\ pc' = "finally"
            /\ UNCHANGED <<printed, exc>>
    /\ UNCHANGED <<prog, stackVars, turn, callVars, response>>
    /\ UNCHANGED <<batchVars, serverVars>>


\* ------------------------------------------------------------ the chat loop
\* The locals of a process_query call (and the record of what the call did)
\* go out of scope once the chat loop has handled its result or its error.
\* `query` is a local of the loop itself and keeps its value until rebound.
DiscardFrame ==
    /\ messages' = <<>>
    /\ assistant_message_content' = <<>>
    /\ final_text' = <<>>
    /\ reply' = <<>>
    /\ idx' = 1
    /\ requests' = <<>>
    /\ invocations' = <<>>
    /\ followups' = <<>>
    /\ response' = <<>>
    /\ UNCHANGED query

\* Lines 229-235 (OAuth client 170-176): read a line; `quit` leaves the loop,
\* anything else is handed to process_query, whose first statements seed the
\* message history.
ReadInput ==
    /\ pc = "input"
    /\ printed' = <<>>
    /\ \/ \E line \in Lines :
            LET q == Strip(line) IN
            /\ turn' = turn + 1
            /\ query' = QueryText(turn', q)
            /\ IF Lower(q) = Quit
               THEN /\ pc' = "finally"
                    /\ UNCHANGED <<messages, assistant_message_content, final_text,
                                   reply, idx, requests, invocations, followups, exc>>
               ELSE
                 /\ turn < MaxQueries
                 /\ messages' = InitialMessages(query')
                 /\ pc' = "pq_list_tools"
                 /\ UNCHANGED <<assistant_message_content, final_text, reply, idx,
                                requests, invocations, followups, exc>>
       \/ /\ exc' \in {Exc("EOFError"), BaseExc("KeyboardInterrupt")}
          /\ pc' = "except"
          /\ UNCHANGED <<turn, callVars>>
    /\ UNCHANGED <<prog, stackVars, response>>
    /\ UNCHANGED <<batchVars, serverVars>>

\* Lines 239-240 (OAuth client 180-181): `except Exception` prints the error
\* and the loop goes on; anything else leaves the loop.
ChatLoopExcept ==
    /\ pc = "except"
    /\ IF Catches(exc)
       THEN /\ printed' = Append(printed, [kind |-> "error", what |-> exc.type])
            /\ exc' = NoExc
            /\ pc' = AfterCaught
       ELSE /\ pc' = "finally"
            /\ UNCHANGED <<printed, exc>>
    /\ DiscardFrame
    /\ UNCHANGED <<prog, stackVars, turn>>
    /\ UNCHANGED <<batchVars, serverVars>>

\* Line 237 (OAuth client 178)
PrintResponse ==
    /\ pc = "print"
    /\ printed' = Append(printed, [kind |-> "response", what |-> "response"])
    /\ pc' = "input"
    /\ DiscardFrame
    /\ UNCHANGED <<prog, stackVars, turn, exc>>
    /\ UNCHANGED <<batchVars, serverVars>>

\* ------------------------------------------------------------ process_query
\* Line 120 (OAuth client 48): tool discovery.
ListTools ==
    /\ pc = "pq_list_tools"
    /\ \/ /\ pc' = "pq_converse" /\ UNCHANGED exc
       \/ /\ exc' = Exc("McpError") /\ pc' = "except"
    /\ UNCHANGED <<prog, stackVars, turn, callVars, response, printed>>
    /\ UNCHANGED <<batchVars, serverVars>>

\* Lines 143-161 (OAuth client 68-86): the first LLM call.
Converse ==
    /\ pc = "pq_converse"
    /\ requests' = Append(requests, Materialize(messages, assistant_message_content))
    /\ \/ \E r \in Replies(turn) :
            /\ reply' = r
            /\ idx' = 1
            /\ final_text' = <<>>
            /\ assistant_message_content' = <<>>
            /\ pc' = "pq_loop"
            /\ UNCHANGED exc
       \/ /\ exc' \in {Exc("ClientError"), Exc("KeyError")}
          /\ pc' = "except"
          /\ UNCHANGED <<reply, idx, final_text, assistant_message_content>>
    /\ UNCHANGED <<prog, stackVars, turn, query, messages, invocations, followups,
                   response, printed>>
    /\ UNCHANGED <<batchVars, serverVars>>

\* Lines 165-169: a content block that is no tool-use block.
TextOrOtherBlock ==
    /\ pc = "pq_loop"
    /\ idx <= Len(reply)
    /\ reply[idx].kind # "toolUse"
    /\ IF reply[idx].kind = "text"
       THEN /\ final_text' = Append(final_text, reply[idx].text)
            /\ assistant_message_content' = Append(assistant_message_content, reply[idx])
       ELSE UNCHANGED <<final_text, assistant_message_content>>
    /\ idx' = idx + 1
    /\ UNCHANGED <<prog, pc, stackVars, turn, query, messages, reply, requests,
                   invocations, followups, response, exc, printed>>
    /\ UNCHANGED <<batchVars, serverVars>>

\* Lines 171-204: a tool-use block: invoke the tool, then extend the history.
CallTool ==
    /\ pc = "pq_loop"
    /\ idx <= Len(reply)
    /\ reply[idx].kind = "toolUse"
    /\ LET content == reply[idx]
           tool_name == ToolName(content)
           tool_args == ToolArgs(content)
           tool_use_id == ToolUseId(content)
       IN \/ \E res \in ToolResults(turn) :
               LET tool_result_content == ToolResultContent(res) IN
               /\ invocations' = Append(invocations,
                      [name |-> tool_name, args |-> tool_args,
                       block |-> idx, result |-> res])
               /\ final_text' = Append(final_text, Diagnostic(tool_name, tool_args))
               /\ assistant_message_content' = Append(assistant_message_content, content)
               /\ messages' = messages \o
                      << AssistantMessage,
                         UserMessage(<<ToolResultBlock(tool_use_id, tool_result_content)>>) >>
               /\ pc' = "pq_followup"
               /\ UNCHANGED exc
          \/ /\ exc' = Exc("ToolError")
             /\ pc' = "except"
             /\ UNCHANGED <<invocations, final_text, assistant_message_content, messages>>
    /\ UNCHANGED <<prog, stackVars, turn, query, reply, idx, requests, followups,
                   response, printed>>
    /\ UNCHANGED <<batchVars, serverVars>>

\* Lines 207-214: the follow-up LLM call and the first text of its reply.
FollowUp ==
    /\ pc = "pq_followup"
    /\ requests' = Append(requests, Materialize(messages, assistant_message_content))
    /\ \/ \E r \in FollowReplies(turn) :
            /\ followups' = Append(followups, r)
            /\ IF ~FollowUpText(r).ok
               THEN /\ exc' = Exc(FollowUpText(r).err) /\ pc' = "except"
                    /\ UNCHANGED <<final_text, idx, reply>>
               ELSE /\ final_text' = Append(final_text, FollowUpText(r).text)
                    /\ reply' = AfterFollowUp(reply, r)
                    /\ idx' = idx + 1
                    /\ pc' = "pq_loop"
                    /\ UNCHANGED exc
       \/ /\ exc' \in {Exc("ClientError"), Exc("KeyError")}
          /\ pc' = "except"
          /\ UNCHANGED <<followups, final_text, idx, reply>>
    /\ UNCHANGED <<prog, stackVars, turn, query, messages, assistant_message_content,
                   invocations, response, printed>>
    /\ UNCHANGED <<batchVars, serverVars>>

\* Line 216
Return ==
    /\ pc = "pq_loop"
    /\ idx > Len(reply)
    /\ response' = ReturnValue(final_text)
    /\ pc' = "print"
    /\ UNCHANGED <<prog, stackVars, turn, callVars, exc, printed>>
    /\ UNCHANGED <<batchVars, serverVars>>

\* ------------------------------------------------------------------ release
\* Local client, lines 252-253 and 218-220: `finally: await client.cleanup()`.
Cleanup ==
    /\ prog = "local" /\ pc = "finally"
    /\ released' = released \o ReleaseOrder(exit_stack)
    /\ exit_stack' = <<>>
    /\ pc' = "done"
    /\ UNCHANGED <<prog, acquired, turn, callVars, response, exc, printed>>
    /\ UNCHANGED <<batchVars, serverVars>>

\* OAuth client, line 146: leaving `async with Client(...)`.
ClientExit ==
    /\ prog = "oauth" /\ pc = "finally"
    /\ released' = released \o ReleaseOrder(exit_stack)
    /\ exit_stack' = <<>>
    /\ pc' = "done"
    /\ UNCHANGED <<prog, acquired, turn, callVars, response, exc, printed>>
    /\ UNCHANGED <<batchVars, serverVars>>

NextTools ==
    \/ ConnectStdio \/ ConnectSession \/ ConnectInitialize \/ ConnectListTools
    \/ ClientEnter \/ OAuthListTools \/ SmokeTest \/ SmokeTestExcept
    \/ ReadInput \/ ChatLoopExcept \/ PrintResponse
    \/ ListTools \/ Converse \/ TextOrOtherBlock \/ CallTool \/ FollowUp \/ Return
    \/ Cleanup \/ ClientExit

SpecTools == InitTools /\ [][NextTools]_vars

Spec == SpecTools


\* =========================================================== blog-post client
\* Environment: the code file, and the first content blocks the LLM may send.
CodeText == <<BTok("code", "word", "import fastmcp"), BTok("code", "word", "mcp.run()")>>

BTextBlock(ts) == [kind |-> "text", text |-> ts]
BOtherBlock == [kind |-> "other", text |-> <<>>]

\* Reply contents of an LLM call whose text is one of texts.
LlmContents(texts) ==
    { <<>>, <<BOtherBlock>> } \cup { <<BTextBlock(t)>> : t \in texts }
    \cup { <<BTextBlock(t), BOtherBlock>> : t \in texts }

\* response['output']['message']['content'][0]['text']
FirstText(content) ==
    IF content = <<>> THEN [ok |-> FALSE, text |-> <<>>, err |-> Exc("IndexError")]
    ELSE IF content[1].kind # "text" THEN [ok |-> FALSE, text |-> <<>>, err |-> Exc("KeyError")]
    ELSE [ok |-> TRUE, text |-> content[1].text, err |-> NoExc]

K(k, v) == BTok("keyword_reply", k, v)

KeywordObject(key, vals) ==
    <<K("punct", "{"), K("str", key), K("punct", ":"), K("ws", " "), K("punct", "[")>>
    \o vals \o <<K("punct", "]"), K("punct", "}")>>

ValsAB == <<K("str", "A"), K("punct", ","), K("str", "B")>>

\* Texts the LLM may send in reply to the keyword prompt.
KeywordTexts ==
    { <<K("fence", "json"), K("ws", "\n")>> \o KeywordObject("keywords", ValsAB)
          \o <<K("ws", "\n"), K("fence", "")>>,
      <<K("fence", ""), K("ws", "\n")>> \o KeywordObject("keywords", <<K("str", "MCP")>>)
          \o <<K("ws", "\n"), K("fence", "")>>,
      KeywordObject("keywords", ValsAB),
      KeywordObject("tags", ValsAB),
      <<K("punct", "["), K("str", "A"), K("punct", "]")>>,
      <<K("fence", "python"), K("ws", "\n")>> \o KeywordObject("keywords", ValsAB)
          \o <<K("ws", "\n"), K("fence", "")>>,
      <<K("word", "Sure!"), K("ws", " ")>> \o KeywordObject("keywords", ValsAB),
      <<K("punct", "{"), K("str", "keywords"), K("punct", ":"), K("punct", "["), K("str", "A"), K("punct", ",")>>,
      <<>> }

IntroTexts == { <<BTok("intro_reply", "word", "An intro.")>> }
MainTexts == { <<BTok("main_reply", "word", "A main part.")>> }
AggregateTexts == { <<BTok("aggregate_reply", "word", "A blog post.")>> }

\* The prompt rendered for the last get_prompt call.
LastPrompt == LET ev == trace[Len(trace)] IN Render(ev.name, ev.args)

InitBlog ==
    /\ prog = "blog"
    /\ pc = "b_main"
    /\ exit_stack = <<>>
    /\ acquired = <<>>
    /\ released = <<>>
    /\ exc = NoExc
    /\ printed = <<>>
    /\ ToolsIdle
    /\ ServersIdle
    /\ entry = "script"
    /\ nargs \in 0..3
    /\ script_is_file \in BOOLEAN
    /\ code_is_file \in BOOLEAN
    /\ status = "running"
    /\ trace = <<>>
    /\ code = <<>>
    /\ keywords = PyNone
    /\ intro = <<>>
    /\ main_part = <<>>
    /\ result = <<>>
    /\ resources = <<>>
    /\ resource_templates = <<>>
    /\ readme_content = <<>>
    /\ month_sales = <<>>
    /\ inputs = [month |-> <<>>, year |-> <<>>, query |-> <<>>]

envVars == <<entry, nargs, script_is_file, code_is_file, inputs>>
blogVars == <<code, keywords, intro, main_part, result>>
salesVars == <<resources, resource_templates, readme_content, month_sales>>
connVars == <<exit_stack, acquired, released>>

\* An uncaught exception e ends the program (traceback, exit status 1).
Uncaught(e) ==
    /\ exc' = e
    /\ status' = "exit1"
    /\ pc' = "done"

\* Exception e is raised inside the connection scope.
RaiseInScope(e) ==
    /\ exc' = e
    /\ pc' = AfterRaiseInScope

\* main, lines 259-263
BlogMain ==
    /\ prog = "blog" /\ pc = "b_main"
    /\ IF nargs + 1 < 2
       THEN /\ printed' = Append(printed, [kind |-> "usage", what |-> "Usage"])
            /\ exc' = BaseExc("SystemExit")
            /\ status' = "exit1"
            /\ pc' = "done"
       ELSE /\ printed' = Append(printed, [kind |-> "info", what |-> "Starting the MCP Client"])
            /\ pc' = "b_construct"
            /\ UNCHANGED <<exc, status>>
    /\ UNCHANGED <<prog, connVars, envVars, trace, blogVars, salesVars, toolOnlyVars, serverVars>>

\* main line 265 and __init__ lines 26-40
BlogConstruct ==
    /\ prog = "blog" /\ pc = "b_construct"
    /\ IF AssertIsFile(script_is_file)
       THEN pc' = "b_argv" /\ UNCHANGED <<exc, status>>
       ELSE Uncaught(ExcMsg("AssertionError", "MCP Server Script not Found"))
    /\ UNCHANGED <<prog, connVars, printed, envVars, trace, blogVars, salesVars, toolOnlyVars, serverVars>>

\* main line 267: the argument sys.argv[2] of run
BlogRunArgument ==
    /\ prog = "blog" /\ pc = "b_argv"
    /\ IF nargs >= 2
       THEN pc' = "b_run" /\ UNCHANGED <<exc, status>>
       ELSE Uncaught(Exc("IndexError"))
    /\ UNCHANGED <<prog, connVars, printed, envVars, trace, blogVars, salesVars, toolOnlyVars, serverVars>>

\* run, lines 211-214
BlogReadCode ==
    /\ prog = "blog" /\ pc = "b_run"
    /\ IF AssertIsFile(code_is_file)
       THEN code' = CodeText /\ pc' = "b_connect" /\ UNCHANGED <<exc, status>>
       ELSE Uncaught(Exc("AssertionError")) /\ UNCHANGED code
    /\ UNCHANGED <<prog, connVars, printed, envVars, trace, keywords, intro, main_part,
                   result, salesVars, toolOnlyVars, serverVars>>

\* run, line 216: entering `async with self.client`
BlogConnect ==
    /\ prog = "blog" /\ pc = "b_connect"
    /\ \/ /\ exit_stack' = Append(exit_stack, "client")
          /\ acquired' = Append(acquired, "client")
          /\ pc' = "b_ping"
          /\ UNCHANGED <<exc, status>>
       \/ /\ Uncaught(Exc("RuntimeError"))
          /\ UNCHANGED <<exit_stack, acquired>>
    /\ UNCHANGED <<prog, released, printed, envVars, trace, blogVars, salesVars, toolOnlyVars, serverVars>>

\* run, line 218
BlogPing ==
    /\ prog = "blog" /\ pc = "b_ping"
    /\ trace' = Append(trace, ServerCall("ping", "", NoArgs, <<>>))
    /\ \/ pc' = "b_list_prompts" /\ UNCHANGED exc
       \/ RaiseInScope(Exc("McpError"))
    /\ UNCHANGED <<prog, connVars, printed, envVars, status, blogVars, salesVars, toolOnlyVars, serverVars>>

\* run, lines 221-225
BlogListPrompts ==
    /\ prog = "blog" /\ pc = "b_list_prompts"
    /\ trace' = Append(trace, ServerCall("list_prompts", "", NoArgs, <<>>))
    /\ \/ /\ printed' = Append(printed, [kind |-> "info", what |-> "Available Prompts"])
          /\ pc' = "b_kw_prompt"
          /\ UNCHANGED exc
       \/ RaiseInScope(Exc("McpError")) /\ UNCHANGED printed
    /\ UNCHANGED <<prog, connVars, envVars, status, blogVars, salesVars, toolOnlyVars, serverVars>>

\* A get_prompt call of a step: at, next are the step's positions.
GetPrompt(at, next, name, args) ==
    /\ prog = "blog" /\ pc = at
    /\ trace' = Append(trace, ServerCall("get_prompt", name, args, <<>>))
    /\ \/ pc' = next /\ UNCHANGED exc
       \/ RaiseInScope(Exc("McpError"))
    /\ UNCHANGED <<prog, connVars, printed, envVars, status, blogVars, salesVars, toolOnlyVars, serverVars>>

\* run_keyword_prompt, lines 59-62
KeywordPrompt ==
    GetPrompt("b_kw_prompt", "b_kw_llm", "Get Keywords From Code",
              [NoArgs EXCEPT !.code = code])

\* run_keyword_prompt, lines 64-86
KeywordLlm ==
    /\ prog = "blog" /\ pc = "b_kw_llm"
    /\ \/ \E content \in LlmContents(KeywordTexts) :
            /\ trace' = Append(trace, LlmCall(MessageText(LastPrompt), <<>>, content))
            /\ LET first == FirstText(content)
                   parsed == JsonLoads(StripFences(first.text))
               IN IF ~first.ok THEN RaiseInScope(first.err) /\ UNCHANGED keywords
                  ELSE IF ~parsed.ok
                  THEN /\ RaiseInScope(KeywordParseError)
                       /\ UNCHANGED keywords
                  ELSE /\ keywords' = ParsedKeywords(parsed.val)
                       /\ pc' = "b_intro_prompt"
                       /\ UNCHANGED exc
       \/ /\ trace' = Append(trace, LlmCall(MessageText(LastPrompt), <<>>, <<>>))
          /\ RaiseInScope(Exc("ClientError"))
          /\ UNCHANGED keywords
    /\ UNCHANGED <<prog, connVars, printed, envVars, status, code, intro, main_part,
                   result, salesVars, toolOnlyVars, serverVars>>

\* run_intro_prompt, lines 100-103
IntroPrompt ==
    GetPrompt("b_intro_prompt", "b_intro_llm", "Get Intro From Keywords",
              [NoArgs EXCEPT !.keywords = IntroKeywords(keywords)])

\* run_intro_prompt, lines 105-121
IntroLlm ==
    /\ prog = "blog" /\ pc = "b_intro_llm"
    /\ \/ \E content \in LlmContents(IntroTexts) :
            /\ trace' = Append(trace, LlmCall(MessageText(LastPrompt), <<>>, content))
            /\ LET first == FirstText(content) IN
               IF ~first.ok THEN RaiseInScope(first.err) /\ UNCHANGED intro
               ELSE intro' = first.text /\ pc' = "b_main_prompt" /\ UNCHANGED exc
       \/ /\ trace' = Append(trace, LlmCall(MessageText(LastPrompt), <<>>, <<>>))
          /\ RaiseInScope(Exc("ClientError"))
          /\ UNCHANGED intro
    /\ UNCHANGED <<prog, connVars, printed, envVars, status, code, keywords, main_part,
                   result, salesVars, toolOnlyVars, serverVars>>

\* run_main_prompt, lines 137-140
MainPrompt ==
    GetPrompt("b_main_prompt", "b_main_llm", "Get Main Section From Code",
              [NoArgs EXCEPT !.keywords = MainKeywords(keywords), !.code = code])

\* run_main_prompt, lines 142-158
MainLlm ==
    /\ prog = "blog" /\ pc = "b_main_llm"
    /\ \/ \E content \in LlmContents(MainTexts) :
            /\ trace' = Append(trace, LlmCall(MessageText(LastPrompt), <<>>, content))
            /\ LET first == FirstText(content) IN
               IF ~first.ok THEN RaiseInScope(first.err) /\ UNCHANGED main_part
               ELSE main_part' = first.text /\ pc' = "b_agg_prompt" /\ UNCHANGED exc
       \/ /\ trace' = Append(trace, LlmCall(MessageText(LastPrompt), <<>>, <<>>))
          /\ RaiseInScope(Exc("ClientError"))
          /\ UNCHANGED main_part
    /\ UNCHANGED <<prog, connVars, printed, envVars, status, code, keywords, intro,
                   result, salesVars, toolOnlyVars, serverVars>>

\* run_aggregate_prompt, lines 175-178
AggregatePrompt ==
    GetPrompt("b_agg_prompt", "b_agg_llm", "Aggregate Blog Sections",
              AggregateArgs(intro, main_part, outlook_text))

\* run_aggregate_prompt, lines 180-196, and run line 248
AggregateLlm ==
    /\ prog = "blog" /\ pc = "b_agg_llm"
    /\ \/ \E content \in LlmContents(AggregateTexts) :
            /\ trace' = Append(trace, LlmCall(MessageText(LastPrompt), <<>>, content))
            /\ LET first == FirstText(content) IN
               IF ~first.ok THEN RaiseInScope(first.err) /\ UNCHANGED result
               ELSE result' = first.text /\ pc' = "aexit" /\ UNCHANGED exc
       \/ /\ trace' = Append(trace, LlmCall(MessageText(LastPrompt), <<>>, <<>>))
          /\ RaiseInScope(Exc("ClientError"))
          /\ UNCHANGED result
    /\ UNCHANGED <<prog, connVars, printed, envVars, status, code, keywords, intro,
                   main_part, salesVars, toolOnlyVars, serverVars>>

\* run, lines 216 and 254: leaving `async with self.client`, then returning
\* the blog post or letting the exception leave run and main.
BlogExit ==
    /\ prog = "blog" /\ pc = "aexit"
    /\ released' = released \o ReleaseOrder(exit_stack)
    /\ exit_stack' = <<>>
    /\ IF exc = NoExc
       THEN status' = "returned" /\ pc' = "b_print"
       ELSE status' = "exit1" /\ pc' = "done"
    /\ UNCHANGED <<prog, acquired, exc, printed, envVars, trace, blogVars, salesVars,
                   toolOnlyVars, serverVars>>

\* main, line 269
BlogPrint ==
    /\ prog = "blog" /\ pc = "b_print"
    /\ printed' = Append(printed, [kind |-> "response", what |-> "blogpost"])
    /\ status' = "exit0"
    /\ pc' = "done"
    /\ UNCHANGED <<prog, connVars, exc, envVars, trace, blogVars, salesVars, toolOnlyVars, serverVars>>

NextBlog ==
    \/ BlogMain \/ BlogConstruct \/ BlogRunArgument \/ BlogReadCode \/ BlogConnect
    \/ BlogPing \/ BlogListPrompts
    \/ KeywordPrompt \/ KeywordLlm \/ IntroPrompt \/ IntroLlm
    \/ MainPrompt \/ MainLlm \/ AggregatePrompt \/ AggregateLlm
    \/ BlogExit \/ BlogPrint


\* ================================================================ sales client

\* str.strip, str.lower and int on the texts a user may type.
StripStr(v) ==
    CASE v = " March " -> "March"
      [] v = " 2025 " -> "2025"
      [] v = " How were sales? " -> "How were sales?"
      [] OTHER -> v

LowerStr(v) ==
    CASE v = "March" -> "march"
      [] v = "MARCH" -> "march"
      [] OTHER -> v

IntStr(v) ==
    CASE v = "2025" -> [ok |-> TRUE, v |-> "2025"]
      [] v = "02025" -> [ok |-> TRUE, v |-> "2025"]
      [] OTHER -> [ok |-> FALSE, v |-> ""]

MonthInputs == {"march", " March ", "3"}
YearInputs == {"2025", " 2025 ", "02025", "20x5", ""}
QueryInputs == {" How were sales? "}

In(k, v) == <<BTok("input", k, v)>>

\* What the server lists: resources and resource templates.
Resource(name, uri) == [name |-> name, uri |-> uri]
ReadmeUri == <<BTok("server", "lit", "file:///data/README.md")>>
OtherUri == <<BTok("server", "lit", "file:///data/NOTES.md")>>
SalesTemplate ==
    <<BTok("server", "lit", "resource://sales/"), BTok("server", "placeholder", "year"),
      BTok("server", "lit", "/"), BTok("server", "placeholder", "month")>>
CityTemplate ==
    <<BTok("server", "lit", "resource://sales/"), BTok("server", "placeholder", "city")>>

ResourceLists ==
    { <<Resource("README", ReadmeUri)>>,
      <<Resource("NOTES", OtherUri), Resource("README", ReadmeUri)>>,
      <<Resource("README", ReadmeUri), Resource("README", OtherUri)>>,
      <<Resource("NOTES", OtherUri)>>,
      <<>> }
TemplateLists ==
    { <<Resource("get_sales", SalesTemplate)>>,
      <<Resource("get_other", CityTemplate), Resource("get_sales", SalesTemplate)>>,
      <<Resource("get_sales", CityTemplate)>>,
      <<>> }

ReadmeText == <<BTok("readme", "word", "Sales data per month.")>>
SalesData == <<BTok("sales", "word", "[{'product': 'A', 'units': 3}]")>>
SalesTexts == { <<BTok("sales_reply", "word", "Sales rose.")>> }

\* _get_resource: the first entry of the list with the name.
RECURSIVE _get_resource_last(_, _)
\* Mutant: the last entry with the name wins.
_get_resource_last(list, resource_name) ==
    IF list = <<>>
    THEN [ok |-> FALSE, res |-> Resource("", <<>>),
          err |-> ExcMsg("KeyError", "Resource " \o resource_name \o " not found")]
    ELSE LET later == _get_resource_last(Tail(list), resource_name) IN
         IF later.ok THEN later
         ELSE IF resource_name = Head(list).name
         THEN [ok |-> TRUE, res |-> Head(list), err |-> NoExc]
         ELSE later

RECURSIVE _get_resource(_, _)
_get_resource(list, resource_name) ==
    IF list = <<>>
    THEN [ok |-> FALSE, res |-> Resource("", <<>>),
          err |-> ExcMsg("KeyError", "Resource " \o resource_name \o " not found")]
    ELSE IF resource_name = Head(list).name
    THEN [ok |-> TRUE, res |-> Head(list), err |-> NoExc]
    ELSE _get_resource(Tail(list), resource_name)

\* uriTemplate.format(year = ..., month = ...)
RECURSIVE Format(_, _, _)
Format(tpl, year, month) ==
    IF tpl = <<>> THEN [ok |-> TRUE, uri |-> <<>>]
    ELSE LET h == Head(tpl)
             rest == Format(Tail(tpl), year, month)
             piece == IF h.k # "placeholder" THEN <<h>>
                      ELSE IF h.v = "year" THEN year
                      ELSE IF h.v = "month" THEN month
                      ELSE <<>>
         IN IF h.k = "placeholder" /\ h.v \notin {"year", "month"}
            THEN [ok |-> FALSE, uri |-> <<>>]
            ELSE [ok |-> rest.ok, uri |-> piece \o rest.uri]

\* The user message and the system prompt of the converse call.
SalesMessage(query_text, sales) == query_text \o <<BLit("Sales Data:")>> \o sales
SystemPrompt(readme) == <<BLit("You are a smart assistant that analyzes monthly sales data.")>> \o readme

\* What `sys.exit(1)` does at line 127: sys is bound only when the file runs as a script.
SysExit == IF entry = "script" THEN BaseExc("SystemExit") ELSE Exc("NameError")

LibraryInputs == [month |-> In("month", "march"), year |-> In("year", "2025"),
                  query |-> In("query", "How were sales?")]
NoInputs == [month |-> <<>>, year |-> <<>>, query |-> <<>>]

InitSales ==
    /\ prog = "sales"
    /\ entry \in {"script", "library"}
    /\ pc = IF entry = "script" THEN "s_main" ELSE "s_construct"
    /\ inputs = IF entry = "script" THEN NoInputs ELSE LibraryInputs
    /\ exit_stack = <<>>
    /\ acquired = <<>>
    /\ released = <<>>
    /\ exc = NoExc
    /\ printed = <<>>
    /\ ToolsIdle
    /\ ServersIdle
    /\ nargs \in IF entry = "script" THEN 0..2 ELSE {1}
    /\ script_is_file \in BOOLEAN
    /\ code_is_file = FALSE
    /\ status = "running"
    /\ trace = <<>>
    /\ code = <<>>
    /\ keywords = PyNone
    /\ intro = <<>>
    /\ main_part = <<>>
    /\ result = <<>>
    /\ resources = <<>>
    /\ resource_templates = <<>>
    /\ readme_content = <<>>
    /\ month_sales = <<>>

\* How the program ends when an exception leaves run.
EndStatus == IF entry = "script" THEN "exit1" ELSE "raised"

\* main, lines 156-160
SalesMain ==
    /\ prog = "sales" /\ pc = "s_main"
    /\ IF nargs + 1 < 2
       THEN /\ printed' = Append(printed, [kind |-> "usage", what |-> "Usage"])
            /\ exc' = BaseExc("SystemExit")
            /\ status' = "exit1"
            /\ pc' = "done"
       ELSE /\ printed' = Append(printed, [kind |-> "info", what |-> "Starting the MCP Client"])
            /\ pc' = "s_inputs"
            /\ UNCHANGED <<exc, status>>
    /\ UNCHANGED <<prog, connVars, envVars, trace, blogVars, salesVars, toolOnlyVars, serverVars>>

\* main, lines 161-165
SalesInputs ==
    /\ prog = "sales" /\ pc = "s_inputs"
    /\ \E m \in MonthInputs, y \in YearInputs, q \in QueryInputs :
         LET year == IntStr(StripStr(y)) IN
         IF year.ok
         THEN /\ inputs' = [month |-> In("month", LowerStr(StripStr(m))),
                            year |-> In("year", year.v),
                            query |-> In("query", StripStr(q))]
              /\ printed' = Append(printed, [kind |-> "info", what |-> "Getting Results..."])
              /\ pc' = "s_construct"
              /\ UNCHANGED <<exc, status>>
         ELSE /\ Uncaught(Exc("ValueError"))
              /\ UNCHANGED <<inputs, printed>>
    /\ UNCHANGED <<prog, connVars, entry, nargs, script_is_file, code_is_file, trace,
                   blogVars, salesVars, toolOnlyVars, serverVars>>

\* main line 167 and __init__ lines 37-50
SalesConstruct ==
    /\ prog = "sales" /\ pc = "s_construct"
    /\ IF AssertIsFile(script_is_file)
       THEN pc' = "s_connect" /\ UNCHANGED <<exc, status>>
       ELSE /\ exc' = ExcMsg("AssertionError", "MCP Server Script not Found")
            /\ status' = EndStatus
            /\ pc' = "done"
    /\ UNCHANGED <<prog, connVars, printed, envVars, trace, blogVars, salesVars, toolOnlyVars, serverVars>>

\* run, line 90: entering `async with self.client`
SalesConnect ==
    /\ prog = "sales" /\ pc = "s_connect"
    /\ \/ /\ exit_stack' = Append(exit_stack, "client")
          /\ acquired' = Append(acquired, "client")
          /\ pc' = "s_ping"
          /\ UNCHANGED <<exc, status>>
       \/ /\ exc' = Exc("RuntimeError")
          /\ status' = EndStatus
          /\ pc' = "done"
          /\ UNCHANGED <<exit_stack, acquired>>
    /\ UNCHANGED <<prog, released, printed, envVars, trace, blogVars, salesVars, toolOnlyVars, serverVars>>

\* run, line 93
SalesPing ==
    /\ prog = "sales" /\ pc = "s_ping"
    /\ trace' = Append(trace, ServerCall("ping", "", NoArgs, <<>>))
    /\ \/ pc' = "s_list_resources" /\ UNCHANGED exc
       \/ RaiseInScope(Exc("McpError"))
    /\ UNCHANGED <<prog, connVars, printed, envVars, status, blogVars, salesVars, toolOnlyVars, serverVars>>

\* run, lines 96-99
ListResources ==
    /\ prog = "sales" /\ pc = "s_list_resources"
    /\ trace' = Append(trace, ServerCall("list_resources", "", NoArgs, <<>>))
    /\ \/ \E rs \in ResourceLists :
            /\ resources' = rs
            /\ printed' = Append(printed, [kind |-> "info", what |-> "Available Resources:"])
            /\ pc' = "s_list_templates"
            /\ UNCHANGED exc
       \/ RaiseInScope(Exc("McpError")) /\ UNCHANGED <<resources, printed>>
    /\ UNCHANGED <<prog, connVars, envVars, status, blogVars, resource_templates,
                   readme_content, month_sales, toolOnlyVars, serverVars>>

\* run, lines 101-104
ListResourceTemplates ==
    /\ prog = "sales" /\ pc = "s_list_templates"
    /\ trace' = Append(trace, ServerCall("list_resource_templates", "", NoArgs, <<>>))
    /\ \/ \E ts \in TemplateLists :
            /\ resource_templates' = ts
            /\ printed' = Append(printed, [kind |-> "info", what |-> "Available Resources Templates"])
            /\ pc' = "s_readme"
            /\ UNCHANGED exc
       \/ RaiseInScope(Exc("McpError")) /\ UNCHANGED <<resource_templates, printed>>
    /\ UNCHANGED <<prog, connVars, envVars, status, blogVars, resources,
                   readme_content, month_sales, toolOnlyVars, serverVars>>

\* run, lines 106-107
ReadReadme ==
    /\ prog = "sales" /\ pc = "s_readme"
    /\ LET found == _get_resource(resources, "README") IN
       IF ~found.ok
       THEN RaiseInScope(found.err) /\ UNCHANGED <<trace, readme_content>>
       ELSE /\ trace' = Append(trace, ServerCall("read_resource", "", NoArgs, found.res.uri))
            /\ \/ readme_content' = ReadmeText /\ pc' = "s_sales" /\ UNCHANGED exc
               \/ RaiseInScope(Exc("McpError")) /\ UNCHANGED readme_content
    /\ UNCHANGED <<prog, connVars, printed, envVars, status, blogVars, resources,
                   resource_templates, month_sales, toolOnlyVars, serverVars>>

\* run, lines 120-127
ReadSales ==
    /\ prog = "sales" /\ pc = "s_sales"
    /\ LET found == _get_resource(resource_templates, "get_sales")
           resource_uri == Format(found.res.uri, inputs.year, inputs.month)
       IN IF ~found.ok
          THEN RaiseInScope(found.err) /\ UNCHANGED <<trace, month_sales, printed>>
          ELSE IF ~resource_uri.ok
          THEN RaiseInScope(Exc("KeyError")) /\ UNCHANGED <<trace, month_sales, printed>>
          ELSE /\ trace' = Append(trace, ServerCall("read_resource", "", NoArgs, resource_uri.uri))
               /\ \/ /\ month_sales' = SalesData
                     /\ pc' = "s_llm"
                     /\ UNCHANGED <<exc, printed>>
                  \/ /\ printed' = Append(printed, [kind |-> "error", what |-> "Error fetching sales data"])
                     /\ RaiseInScope(SysExit)
                     /\ UNCHANGED month_sales
                  \/ /\ RaiseInScope(BaseExc("CancelledError"))
                     /\ UNCHANGED <<month_sales, printed>>
    /\ UNCHANGED <<prog, connVars, envVars, status, blogVars, resources,
                   resource_templates, readme_content, toolOnlyVars, serverVars>>

\* run, lines 129-151
SalesConverse ==
    /\ prog = "sales" /\ pc = "s_llm"
    /\ \/ \E content \in LlmContents(SalesTexts) :
            /\ trace' = Append(trace, LlmCall(SalesMessage(inputs.query, month_sales),
                                              SystemPrompt(readme_content), content))
            /\ LET first == FirstText(content) IN
               IF ~first.ok THEN RaiseInScope(first.err) /\ UNCHANGED result
               ELSE result' = first.text /\ pc' = "aexit" /\ UNCHANGED exc
       \/ /\ trace' = Append(trace, LlmCall(SalesMessage(inputs.query, month_sales),
                                            SystemPrompt(readme_content), <<>>))
          /\ RaiseInScope(Exc("ClientError"))
          /\ UNCHANGED result
    /\ UNCHANGED <<prog, connVars, printed, envVars, status, code, keywords, intro,
                   main_part, salesVars, toolOnlyVars, serverVars>>

\* run, lines 90 and 151: leaving `async with self.client`, then returning
\* the reply or letting the exception leave run.
SalesExit ==
    /\ prog = "sales" /\ pc = "aexit"
    /\ released' = released \o ReleaseOrder(exit_stack)
    /\ exit_stack' = <<>>
    /\ IF exc = NoExc
       THEN /\ status' = "returned"
            /\ pc' = IF entry = "script" THEN "s_print" ELSE "done"
       ELSE status' = EndStatus /\ pc' = "done"
    /\ UNCHANGED <<prog, acquired, exc, printed, envVars, trace, blogVars, salesVars,
                   toolOnlyVars, serverVars>>

\* main, line 173
SalesPrint ==
    /\ prog = "sales" /\ pc = "s_print"
    /\ printed' = Append(printed, [kind |-> "response", what |-> "res"])
    /\ status' = "exit0"
    /\ pc' = "done"
    /\ UNCHANGED <<prog, connVars, exc, envVars, trace, blogVars, salesVars, toolOnlyVars, serverVars>>

NextSales ==
    \/ SalesMain \/ SalesInputs \/ SalesConstruct \/ SalesConnect \/ SalesPing
    \/ ListResources \/ ListResourceTemplates \/ ReadReadme \/ ReadSales
    \/ SalesConverse \/ SalesExit \/ SalesPrint

InitBatch == InitBlog \/ InitSales
NextBatch == NextBlog \/ NextSales
SpecBatch == InitBatch /\ [][NextBatch]_vars


\* =========================================================== sales server
\* io_resource_server.py, line 20
sales_base_path == "data/sales_data/"

\* A file's content: a CSV text with a header line and rows of cells, or
\* text pandas cannot parse (no header line at all).
Cell(v) == BTok("file", "num", v)
Csv(header, rows) == [kind |-> "csv", header |-> header, rows |-> rows]
Unparsable == [kind |-> "unparsable", header |-> <<>>, rows |-> <<>>]
Absent == [kind |-> "absent", header |-> <<>>, rows |-> <<>>]

FileContents ==
    { Csv(<<"id", "amount">>, << <<Cell("2"), Cell("30")>>, <<Cell("1"), Cell("10")>> >>),
      Csv(<<"id", "amount">>, <<>>),
      Unparsable }

FileNames == { sales_base_path \o "march_2024.csv", sales_base_path \o "March_2024.csv",
               sales_base_path \o "march_2025.csv" }

\* The files of the data directory during one call.
SalesWorlds ==
    { {[path |-> n, content |-> f[n]] : n \in {m \in FileNames : f[m] # Absent}} :
        f \in [FileNames -> FileContents \cup {Absent}] }

YearArgs == {"2024", "2025"}
MonthArgs == {"March", "march", "MARCH", "april"}

\* Mutant: the month is used as given.
MonthAsGiven(month) == month

\* get_sales, line 41
MonthOfPath(month) == LowerStr(month)

\* get_sales, line 42: month is the lower-cased month.
SalesPath(month, year) == sales_base_path \o month \o "_" \o year \o ".csv"

\* os.path.isfile
IsFile(files, path) == \E f \in files : f.path = path
ContentOf(files, path) == (CHOOSE f \in files : f.path = path).content

\* pd.read_csv(...).to_dict(orient='records'): one record per row, in file
\* order, each mapping the header's fields to the row's cells.
ToRecords(content) ==
    PyList([i \in 1..Len(content.rows) |->
              PyDict([j \in 1..Len(content.header) |->
                        PyItem(BTok("file", "str", content.header[j]),
                               PyStr(content.rows[i][j]))])])

\* get_sales, line 48: the pieces of the error message.
NotFoundMessage(month, year, path) ==
    <<"Sales data for ", month, " ", year, " not found at ", path,
      ". Month must be written, month must be numeric">>

clientVars == <<exit_stack, acquired, released, exc, printed, toolOnlyVars, batchVars>>

InitServers ==
    /\ prog \in {"sales_server", "weather_server", "news_server"}
    /\ pc = "idle"
    /\ exit_stack = <<>>
    /\ acquired = <<>>
    /\ released = <<>>
    /\ exc = NoExc
    /\ printed = <<>>
    /\ ToolsIdle
    /\ BatchIdle
    /\ ServersIdle

\* A new call starts from fresh locals.
StartCall(name, arguments, outside, at) ==
    /\ pc = "idle"
    /\ tool' = name
    /\ call_args' = arguments
    /\ world' = outside
    /\ http' = <<>>
    /\ fetched' = <<>>
    /\ sales_csv_file' = ""
    /\ sampled' = <<>>
    /\ ret' = NoRet
    /\ pc' = at
    /\ UNCHANGED <<prog, clientVars>>

\* The resource resource://sales/{year}/{month} is read.
ServeGetSales ==
    /\ prog = "sales_server"
    /\ \E y \in YearArgs, m \in MonthArgs, w \in SalesWorlds :
         StartCall("get_sales", [NoCallArgs EXCEPT !.year = y, !.month = m],
                   [NoWorld EXCEPT !.files = w], "gs_resolve")

\* get_sales, lines 41-42
GetSalesResolve ==
    /\ prog = "sales_server" /\ pc = "gs_resolve"
    /\ sales_csv_file' = SalesPath(MonthOfPath(call_args.month), call_args.year)
    /\ pc' = "gs_read"
    /\ UNCHANGED <<prog, clientVars, sampled, tool, call_args, world, http, fetched, ret>>

\* get_sales, lines 44-48
GetSalesRead ==
    /\ prog = "sales_server" /\ pc = "gs_read"
    /\ ret' = IF IsFile(world.files, sales_csv_file)
              THEN LET content == ContentOf(world.files, sales_csv_file) IN
                   IF content.kind = "csv" THEN ReturnVal(ToRecords(content))
                   ELSE Raise("EmptyDataError", <<"No columns to parse from file">>)
              ELSE Raise("FileNotFoundError",
                         NotFoundMessage(MonthOfPath(call_args.month), call_args.year,
                                         sales_csv_file))
    /\ pc' = "idle"
    /\ UNCHANGED <<prog, clientVars, sampled, tool, call_args, world, http, fetched, sales_csv_file>>

NextSalesServer == ServeGetSales \/ GetSalesResolve \/ GetSalesRead


\* ========================================================= weather server
\* Number of forecast periods the weather service may send.
MaxPeriods == 8

\* oauth_github_api_server.py, line 36
NWS_API_BASE == BLit("https://api.weather.gov")

\* ------------------------------------------------- JSON values in Python
W(k, v) == BTok("nws", k, v)
JStr(v) == PyStr(W("str", v))
JNum(v) == [t |-> "num", s |-> W("num", v), xs |-> <<>>]
Member(key, val) == PyItem(W("str", key), val)

\* bool(v)
Truthy(v) ==
    CASE v.t = "none" -> FALSE
      [] v.t \in {"dict", "list"} -> v.xs # <<>>
      [] v.t = "num" -> v.s.v # "0"
      [] OTHER -> v.s.v # ""

\* Mutant: no value counts as missing.
NeverFalsy(v) == FALSE

\* `not v`, lines 88, 91, 110, 117
Falsy(v) == ~Truthy(v)

Ok(v) == [ok |-> TRUE, val |-> v, err |-> ""]
Fail(e) == [ok |-> FALSE, val |-> PyNone, err |-> e]

HasKey(d, key) == \E i \in 1..Len(d.xs) : d.xs[i].s.v = key
ValueAt(d, key) == d.xs[CHOOSE i \in 1..Len(d.xs) : d.xs[i].s.v = key].xs[1]

\* key in v
Contains(v, key) ==
    CASE v.t = "dict" -> [ok |-> TRUE, has |-> HasKey(v, key), err |-> ""]
      [] v.t = "list" -> [ok |-> TRUE, err |-> "",
                          has |-> \E i \in 1..Len(v.xs) : v.xs[i].t = "str" /\ v.xs[i].s.v = key]
      [] v.t = "str" -> [ok |-> TRUE, has |-> v.s.v = key, err |-> ""]
      [] OTHER -> [ok |-> FALSE, has |-> FALSE, err |-> "TypeError"]

\* v[key] for a string key
Subscript(v, key) ==
    IF v.t # "dict" THEN Fail("TypeError")
    ELSE IF HasKey(v, key) THEN Ok(ValueAt(v, key))
    ELSE Fail("KeyError")

\* Mutant: a missing key is an error.
GetStrict(v, key, default) ==
    IF v.t # "dict" THEN Fail("AttributeError")
    ELSE IF HasKey(v, key) THEN Ok(ValueAt(v, key))
    ELSE Fail("KeyError")

\* v.get(key, default)
GetOr(v, key, default) ==
    IF v.t # "dict" THEN Fail("AttributeError")
    ELSE IF HasKey(v, key) THEN Ok(ValueAt(v, key))
    ELSE Ok(PyStr(BLit(default)))

\* The items a for loop or comprehension takes from v.
Iterate(v) ==
    CASE v.t = "list" -> [ok |-> TRUE, xs |-> v.xs, err |-> ""]
      [] v.t = "dict" -> [ok |-> TRUE, xs |-> [i \in 1..Len(v.xs) |-> PyStr(v.xs[i].s)], err |-> ""]
      [] OTHER -> [ok |-> FALSE, xs |-> <<>>, err |-> "TypeError"]

\* A value formatted inside an f-string.
Str(v) == IF v.t \in {"str", "num"} THEN <<v.s>> ELSE PyRepr(v)

\* ----------------------------------------------------------- HTTP answers
Answer(kind, body) == [kind |-> kind, body |-> body]
\* Every way the request can go wrong: the GET raises, the status is not
\* 2xx, the body is not JSON.
FailureAnswers ==
    { Answer(k, PyNone) : k \in {"network_error", "timeout", "status", "not_json"} }

\* make_nws_request, lines 45-51: the parsed body, or None on any exception.
make_nws_request(answer) == IF answer.kind = "json" THEN answer.body ELSE PyNone

\* ------------------------------------------------------------ get_alerts
FullProperties ==
    PyDict(<< Member("event", JStr("Flood Warning")), Member("areaDesc", JStr("Napa")),
              Member("severity", JStr("Severe")), Member("description", JStr("River rising")),
              Member("instruction", JStr("Move to higher ground")) >>)
PartProperties ==
    PyDict(<< Member("areaDesc", JStr("Marin")), Member("description", JStr("Gusts")),
              Member("instruction", PyNone) >>)
Feature(props) == PyDict(<< Member("id", JStr("urn:1")), Member("properties", props) >>)
Features(fs) == PyDict(<< Member("type", JStr("FeatureCollection")), Member("features", fs) >>)

AlertBodies ==
    { PyDict(<<>>),
      PyDict(<< Member("title", JStr("no such area")) >>),
      PyList(<<>>),
      PyList(<< JStr("features") >>),
      JStr("features"),
      JNum("7"),
      PyNone,
      Features(PyList(<<>>)),
      Features(PyNone),
      Features(PyList(<< Feature(FullProperties) >>)),
      Features(PyList(<< Feature(FullProperties), Feature(PartProperties) >>)),
      Features(PyList(<< Feature(PartProperties), Feature(PyDict(<<>>)), Feature(FullProperties) >>)),
      Features(PyList(<< Feature(FullProperties), PyDict(<< Member("id", JStr("urn:2")) >>) >>)),
      Features(PyList(<< Feature(PyNone) >>)) }

UnableAlerts == <<BLit("Unable to fetch alerts or no alerts found.")>>
NoAlerts == <<BLit("No active alerts for this state.")>>
\* Mutant: blocks are joined by a bare newline.
SeparatorNewline == <<BLit("\n")>>

\* Lines 95 and 132
Separator == <<BLit("\n---\n")>>

\* format_alert, lines 55-62
format_alert(feature) ==
    LET props == Subscript(feature, "properties")
        event == GetOr(props.val, "event", "Unknown")
        areaDesc == GetOr(props.val, "areaDesc", "Unknown")
        severity == GetOr(props.val, "severity", "Unknown")
        description == GetOr(props.val, "description", "No description available")
        instruction == GetOr(props.val, "instruction", "No specific instructions provided")
    IN IF ~props.ok THEN [ok |-> FALSE, text |-> <<>>, err |-> props.err]
       ELSE IF ~event.ok THEN [ok |-> FALSE, text |-> <<>>, err |-> event.err]
       ELSE IF ~areaDesc.ok THEN [ok |-> FALSE, text |-> <<>>, err |-> areaDesc.err]
       ELSE IF ~severity.ok THEN [ok |-> FALSE, text |-> <<>>, err |-> severity.err]
       ELSE IF ~description.ok THEN [ok |-> FALSE, text |-> <<>>, err |-> description.err]
       ELSE IF ~instruction.ok THEN [ok |-> FALSE, text |-> <<>>, err |-> instruction.err]
       ELSE [ok |-> TRUE, err |-> "",
             text |-> <<BLit("\n        Event: ")>> \o Str(event.val)
                      \o <<BLit("\n        Area: ")>> \o Str(areaDesc.val)
                      \o <<BLit("\n        Severity: ")>> \o Str(severity.val)
                      \o <<BLit("\n        Description: ")>> \o Str(description.val)
                      \o <<BLit("\n        Instructions: ")>> \o Str(instruction.val)
                      \o <<BLit("\n    ")>>]

\* The first error among rendered items, or their texts joined.
JoinRendered(items) ==
    LET bad == {i \in 1..Len(items) : ~items[i].ok} IN
    IF bad # {}
    THEN Raise(items[CHOOSE i \in bad : \A j \in bad : i <= j].err, <<>>)
    ELSE ReturnText(Join([i \in 1..Len(items) |-> items[i].text], Separator))

\* get_alerts, lines 88-95
AlertsOutcome(data) ==
    IF Falsy(data) THEN ReturnText(UnableAlerts)
    ELSE LET has == Contains(data, "features")
             features == Subscript(data, "features")
             each == Iterate(features.val)
         IN IF ~has.ok THEN Raise(has.err, <<>>)
            ELSE IF ~has.has THEN ReturnText(UnableAlerts)
            ELSE IF ~features.ok THEN Raise(features.err, <<>>)
            ELSE IF Falsy(features.val) THEN ReturnText(NoAlerts)
            ELSE IF ~each.ok THEN Raise(each.err, <<>>)
            ELSE JoinRendered([i \in 1..Len(each.xs) |-> format_alert(each.xs[i])])

\* One GET through make_nws_request: the n-th request of a call gets the
\* n-th answer of the outside world.
Request(url, next) ==
    /\ http' = Append(http, url)
    /\ fetched' = Append(fetched, make_nws_request(world.answers[Len(http) + 1]))
    /\ pc' = next
    /\ UNCHANGED <<prog, clientVars, sampled, tool, call_args, world, sales_csv_file, ret>>

JsonAnswers(bodies) == { Answer("json", b) : b \in bodies }

ServeGetAlerts ==
    /\ prog = "weather_server"
    /\ \E st \in {"CA", "NY"}, a \in FailureAnswers \cup JsonAnswers(AlertBodies) :
         StartCall("get_alerts", [NoCallArgs EXCEPT !.state = st],
                   [NoWorld EXCEPT !.answers = <<a>>], "ga_request")

\* get_alerts, lines 85-86
AlertsRequest ==
    /\ prog = "weather_server" /\ pc = "ga_request"
    /\ Request(<<NWS_API_BASE, BLit("/alerts/active/area/"), W("arg", call_args.state)>>,
               "ga_return")

\* get_alerts, lines 88-95
AlertsReturn ==
    /\ prog = "weather_server" /\ pc = "ga_return"
    /\ ret' = AlertsOutcome(fetched[1])
    /\ pc' = "idle"
    /\ UNCHANGED <<prog, clientVars, sampled, tool, call_args, world, http, fetched, sales_csv_file>>


\* ---------------------------------------------------------- get_forecast
\* get_forecast, line 123: periods[:5]
PeriodsShown == 5

ForecastUrl == "https://api.weather.gov/gridpoints/MTR/85,105/forecast"

PointsBodies ==
    { PyDict(<< Member("properties", PyDict(<< Member("forecast", JStr(ForecastUrl)) >>)) >>),
      PyDict(<< Member("properties", PyDict(<< Member("cwa", JStr("MTR")) >>)) >>),
      PyDict(<< Member("properties", PyNone) >>),
      PyDict(<< Member("title", JStr("Data Unavailable")) >>),
      PyDict(<<>>),
      PyNone }

Period(i) ==
    PyDict(<< Member("name", JStr("period " \o ToString(i))),
              Member("temperature", JNum(ToString(60 + i))),
              Member("temperatureUnit", JStr("F")),
              Member("windSpeed", JStr(ToString(i) \o " mph")),
              Member("windDirection", JStr("NW")),
              Member("detailedForecast", JStr("Sunny " \o ToString(i))) >>)

PeriodWithoutWind ==
    PyDict(<< Member("name", JStr("Tonight")), Member("temperature", JNum("55")),
              Member("temperatureUnit", JStr("F")),
              Member("detailedForecast", JStr("Clear")) >>)

Forecast(periods) ==
    PyDict(<< Member("properties", PyDict(<< Member("periods", periods) >>)) >>)

ForecastBodies ==
    { Forecast(PyList([i \in 1..n |-> Period(i)])) : n \in 0..MaxPeriods }
    \cup { Forecast(PyList(<< Period(1), PeriodWithoutWind >>)),
           Forecast(PyNone),
           PyDict(<< Member("properties", PyDict(<<>>)) >>),
           PyDict(<< Member("title", JStr("Unexpected Problem")) >>),
           PyDict(<<>>),
           PyNone }

\* Mutant: the message of the second request's failure.
UnableForecastSwapped == <<BLit("Unable to fetch detailed forecast.")>>

UnableForecast == <<BLit("Unable to fetch forecast data for this location.")>>
UnableDetailed == <<BLit("Unable to fetch detailed forecast.")>>

\* xs[:n]
Take(xs, n) == IF Len(xs) <= n THEN xs ELSE SubSeq(xs, 1, n)

\* Mutant: every period is rendered.
ShowAll(xs, n) == xs

\* get_forecast, line 123: the periods the loop renders.
Shown(xs, n) == Take(xs, n)

\* get_forecast, lines 124-129: one period's text.
RenderPeriod(period) ==
    LET name == Subscript(period, "name")
        temperature == Subscript(period, "temperature")
        temperatureUnit == Subscript(period, "temperatureUnit")
        windSpeed == Subscript(period, "windSpeed")
        windDirection == Subscript(period, "windDirection")
        detailedForecast == Subscript(period, "detailedForecast")
        fields == <<name, temperature, temperatureUnit, windSpeed, windDirection,
                    detailedForecast>>
        bad == {i \in 1..Len(fields) : ~fields[i].ok}
    IN IF bad # {}
       THEN [ok |-> FALSE, text |-> <<>>,
             err |-> fields[CHOOSE i \in bad : \A j \in bad : i <= j].err]
       ELSE [ok |-> TRUE, err |-> "",
             text |-> <<BLit("\n            ")>> \o Str(name.val) \o <<BLit(":")>>
                      \o <<BLit("\n            Temperature: ")>> \o Str(temperature.val)
                      \o <<BLit("deg")>> \o Str(temperatureUnit.val)
                      \o <<BLit("\n            Wind: ")>> \o Str(windSpeed.val)
                      \o <<BLit(" ")>> \o Str(windDirection.val)
                      \o <<BLit("\n            Forecast: ")>> \o Str(detailedForecast.val)
                      \o <<BLit("\n            ")>>]

\* get_forecast, line 114: points_data["properties"]["forecast"]
forecast_url(points_data) ==
    LET properties == Subscript(points_data, "properties") IN
    IF ~properties.ok THEN properties ELSE Subscript(properties.val, "forecast")

\* get_forecast, lines 117-132
ForecastOutcome(forecast_data) ==
    IF Falsy(forecast_data) THEN ReturnText(UnableDetailed)
    ELSE LET properties == Subscript(forecast_data, "properties")
             periods == Subscript(properties.val, "periods")
         IN IF ~properties.ok THEN Raise(properties.err, <<>>)
            ELSE IF ~periods.ok THEN Raise(periods.err, <<>>)
            ELSE IF periods.val.t # "list" THEN Raise("TypeError", <<>>)
            ELSE LET shown == Shown(periods.val.xs, PeriodsShown) IN
                 JoinRendered([i \in 1..Len(shown) |-> RenderPeriod(shown[i])])

ServeGetForecast ==
    /\ prog = "weather_server"
    /\ \E a1 \in FailureAnswers \cup JsonAnswers(PointsBodies),
          a2 \in FailureAnswers \cup JsonAnswers(ForecastBodies) :
         StartCall("get_forecast",
                   [NoCallArgs EXCEPT !.latitude = "38.5", !.longitude = "-122.3"],
                   [NoWorld EXCEPT !.answers = <<a1, a2>>], "gf_points")

\* get_forecast, lines 107-108
PointsRequest ==
    /\ prog = "weather_server" /\ pc = "gf_points"
    /\ Request(<<NWS_API_BASE, BLit("/points/"), W("arg", call_args.latitude), BLit(","),
                 W("arg", call_args.longitude)>>, "gf_check")

\* get_forecast, lines 110-114
PointsCheck ==
    /\ prog = "weather_server" /\ pc = "gf_check"
    /\ IF Falsy(fetched[1])
       THEN ret' = ReturnText(UnableForecast) /\ pc' = "idle"
       ELSE IF ~forecast_url(fetched[1]).ok
       THEN ret' = Raise(forecast_url(fetched[1]).err, <<>>) /\ pc' = "idle"
       ELSE pc' = "gf_forecast" /\ UNCHANGED ret
    /\ UNCHANGED <<prog, clientVars, sampled, tool, call_args, world, http, fetched, sales_csv_file>>

\* get_forecast, line 115
ForecastRequest ==
    /\ prog = "weather_server" /\ pc = "gf_forecast"
    /\ Request(Str(forecast_url(fetched[1]).val), "gf_return")

\* get_forecast, lines 117-132
ForecastReturn ==
    /\ prog = "weather_server" /\ pc = "gf_return"
    /\ ret' = ForecastOutcome(fetched[Len(fetched)])
    /\ pc' = "idle"
    /\ UNCHANGED <<prog, clientVars, sampled, tool, call_args, world, http, fetched, sales_csv_file>>

NextWeatherServer ==
    \/ ServeGetAlerts \/ AlertsRequest \/ AlertsReturn
    \/ ServeGetForecast \/ PointsRequest \/ PointsCheck \/ ForecastRequest \/ ForecastReturn

\* ================================================= the space news server
\* io_api_sampling_server.py: the tool get_todays_spacenews.
API_BASE == BLit("https://api.spaceflightnewsapi.net/v4/articles/")

\* Number of articles the news service may send.
MaxArticles == 2

N(k, v) == BTok("news", k, v)
PyTuple(xs) == [t |-> "tuple", s |-> NoTok, xs |-> xs]

\* One article of the API's answer: it carries more fields than the tool uses.
Article(i) ==
    PyDict(<< PyItem(N("str", "id"), PyStr(N("str", "id" \o ToString(i)))),
              PyItem(N("str", "title"), PyStr(N("str", "title" \o ToString(i)))),
              PyItem(N("str", "url"), PyStr(N("str", "url" \o ToString(i)))),
              PyItem(N("str", "summary"), PyStr(N("str", "summary" \o ToString(i)))) >>)
ArticleWithoutSummary ==
    PyDict(<< PyItem(N("str", "title"), PyStr(N("str", "title9"))) >>)
Results(articles) ==
    PyDict(<< PyItem(N("str", "count"), PyStr(N("str", "n"))),
              PyItem(N("str", "results"), articles) >>)

NewsBodies ==
    { Results(PyList([i \in 1..n |-> Article(i)])) : n \in 0..MaxArticles }
    \cup { Results(PyList(<< Article(2), Article(1) >>)),
           Results(PyList(<< Article(1), ArticleWithoutSummary >>)),
           Results(PyNone),
           PyDict(<< PyItem(N("str", "detail"), PyStr(N("str", "Not found."))) >>),
           PyNone }

Languages == {"EN", "en", "DE", ""}

\* ctx.sample answers with some content, or raises: an Exception (the client
\* offers no sampling) or a BaseException (the call is cancelled).
SampleOutcomes ==
    { [NoSample EXCEPT !.kind = "response", !.val = PyStr(BTok("llm", "str", v))]
        : v \in {"translated1", "translated2"} }
    \cup { [NoSample EXCEPT !.kind = "raise", !.base = b] : b \in BOOLEAN }

\* get_spaceflight_news_date, line 25
Endpoint(date) == <<API_BASE, BLit("?published_at_gte="), date>>

RECURSIVE Summaries(_)
\* get_spaceflight_news_date, lines 33-34: the loop over the results; the
\* first item that cannot be read ends it with that error.
Summaries(items) ==
    IF items = <<>> THEN Ok(PyList(<<>>))
    ELSE LET title == Subscript(Head(items), "title")
             summary == Subscript(Head(items), "summary")
             rest == Summaries(Tail(items))
         IN IF ~title.ok THEN title
            ELSE IF ~summary.ok THEN summary
            ELSE IF ~rest.ok THEN rest
            ELSE Ok(PyList(<<PyTuple(<<title.val, summary.val>>)>> \o rest.val.xs))

\* get_spaceflight_news_date, lines 27-39: the list of (title, summary)
\* pairs, or None when anything inside the try block raised.
get_spaceflight_news_date(answer) ==
    IF answer.kind # "json" THEN PyNone
    ELSE LET results == Subscript(answer.body, "results")
             items == Iterate(results.val)
         IN IF ~results.ok \/ ~items.ok THEN PyNone
            ELSE IF ~Summaries(items.xs).ok THEN PyNone
            ELSE Summaries(items.xs).val

\* Mutant: only a failed fetch counts as no news.
NoNewsOnlyNone(news_today) == news_today.t = "none"

\* get_todays_spacenews, line 61: `not news_today`
NoNews(news_today) == Falsy(news_today)

\* Mutant: the summary comes first.
news_out_swapped(news_today) ==
    PyList([i \in 1..Len(news_today.xs) |->
              PyDict(<< PyItem(BLit("summary"), news_today.xs[i].xs[2]),
                        PyItem(BLit("title"), news_today.xs[i].xs[1]) >>)])

\* get_todays_spacenews, lines 65-73
news_out(news_today) ==
    PyList([i \in 1..Len(news_today.xs) |->
              PyDict(<< PyItem(BLit("title"), news_today.xs[i].xs[1]),
                        PyItem(BLit("summary"), news_today.xs[i].xs[2]) >>)])

\* Mutant: the language code is compared without regard to case.
NeedsTranslationAnyCase(language) == language \notin {"EN", "en"}

\* get_todays_spacenews, line 75
NeedsTranslation(language) == language # "EN"

\* get_todays_spacenews, lines 77-97
TranslationPrompt(language, news) ==
    <<BLit("Translate the title and the summary of each news entry into the language "),
      N("arg", language),
      BLit(" (ISO639 format). ... Input News Data (json-format)")>> \o PyRepr(news)

ApiCallFailed == Raise("FastMCPError", <<BLit("API Call Failed.")>>)
TranslationFailed ==
    Raise("FastMCPError", <<BLit("Translation failed, LLM Sampling not available.")>>)

ServeGetTodaysSpacenews ==
    /\ prog = "news_server"
    /\ \E l \in Languages, a \in FailureAnswers \cup JsonAnswers(NewsBodies),
          o \in SampleOutcomes :
         StartCall("get_todays_spacenews", [NoCallArgs EXCEPT !.language = l],
                   [NoWorld EXCEPT !.answers = <<a>>, !.sample = o], "sn_fetch")

\* get_todays_spacenews, lines 57-59
NewsFetch ==
    /\ prog = "news_server" /\ pc = "sn_fetch"
    /\ http' = Append(http, Endpoint(BTok("clock", "date", "today")))
    /\ fetched' = Append(fetched, get_spaceflight_news_date(world.answers[Len(http) + 1]))
    /\ pc' = "sn_check"
    /\ UNCHANGED <<prog, clientVars, sampled, tool, call_args, world, sales_csv_file, ret>>

\* get_todays_spacenews, lines 61-75 and, for the untranslated list, 104-107
NewsCheck ==
    /\ prog = "news_server" /\ pc = "sn_check"
    /\ IF NoNews(fetched[1])
       THEN ret' = ApiCallFailed /\ pc' = "idle"
       ELSE IF NeedsTranslation(call_args.language)
       THEN pc' = "sn_sample" /\ UNCHANGED ret
       ELSE ret' = ReturnVal(news_out(fetched[1])) /\ pc' = "idle"
    /\ UNCHANGED <<prog, clientVars, sampled, tool, call_args, world, http, fetched, sales_csv_file>>

\* get_todays_spacenews, lines 77-102 and 107: the bare except clause takes
\* whatever ctx.sample raises.
NewsSample ==
    /\ prog = "news_server" /\ pc = "sn_sample"
    /\ sampled' = Append(sampled, TranslationPrompt(call_args.language, news_out(fetched[1])))
    /\ ret' = IF world.sample.kind = "raise" THEN TranslationFailed
              ELSE ReturnVal(world.sample.val)
    /\ pc' = "idle"
    /\ UNCHANGED <<prog, clientVars, tool, call_args, world, http, fetched, sales_csv_file>>

NextNewsServer == ServeGetTodaysSpacenews \/ NewsFetch \/ NewsCheck \/ NewsSample

NextServers == NextSalesServer \/ NextWeatherServer \/ NextNewsServer
SpecServers == InitServers /\ [][NextServers]_vars


\* =================================================================== claims
\* Helpers of the properties (independent of the operators that model code).
ToolUseIdxs(r) == { i \in 1..Len(r) : r[i].kind = "toolUse" }

RECURSIVE TextsOf(_)
TextsOf(r) ==
    IF r = <<>> THEN <<>>
    ELSE IF Head(r).kind = "text" THEN <<Head(r).text>> \o TextsOf(Tail(r))
    ELSE TextsOf(Tail(r))

RECURSIVE NewlineJoin(_)
NewlineJoin(parts) ==
    IF parts = <<>> THEN <<>>
    ELSE IF Tail(parts) = <<>> THEN Head(parts)
    ELSE Head(parts) \o <<[q |-> 0, v |-> "\n"]>> \o NewlineJoin(Tail(parts))

DiagLine(b) ==
    << [q |-> 0, v |-> "[Calling tool "], b.name, [q |-> 0, v |-> " with args "],
       b.input, [q |-> 0, v |-> "]"] >>

RECURSIVE TextItemsOf(_)
TextItemsOf(items) ==
    IF items = <<>> THEN <<>>
    ELSE IF Head(items).type = "text" THEN <<Head(items).text>> \o TextItemsOf(Tail(items))
    ELSE TextItemsOf(Tail(items))

Untag(s) == [i \in 1..Len(s) |-> s[i].v]

NoDuplicates(s) == \A i, j \in 1..Len(s) : s[i] = s[j] => i = j

TheToolUse(r) == CHOOSE i \in ToolUseIdxs(r) : TRUE

\* C1 (as stated): when the initial reply holds exactly one tool-use block, a
\* returning process_query has made one tool invocation and one follow-up LLM
\* call, and returns the newline-join of all the initial reply's texts, then
\* the diagnostic line, then the first text of the follow-up reply.
C1_TextsThenDiagnosticThenFollowUp ==
    (pc = "print" /\ Cardinality(ToolUseIdxs(reply)) = 1) =>
        /\ Len(invocations) = 1
        /\ Len(requests) = 2
        /\ Len(followups) = 1
        /\ response = NewlineJoin(TextsOf(reply)
                                  \o <<DiagLine(reply[TheToolUse(reply)])>>
                                  \o <<followups[1][1].text>>)

\* C1 (amended): when the initial reply holds exactly one tool-use block, a
\* returning process_query has made one tool invocation and one follow-up LLM
\* call, and returns the newline-join of: the texts of the blocks before the
\* tool-use block, the diagnostic line, the first text of the follow-up reply,
\* and the texts of the blocks after the tool-use block.
C1_SingleToolUseInBlockOrder ==
    (pc = "print" /\ Cardinality(ToolUseIdxs(reply)) = 1) =>
        LET k == TheToolUse(reply) IN
        /\ Len(invocations) = 1
        /\ Len(requests) = 2
        /\ Len(followups) = 1
        /\ response = NewlineJoin(TextsOf(SubSeq(reply, 1, k - 1))
                                  \o <<DiagLine(reply[k])>>
                                  \o <<followups[1][1].text>>
                                  \o TextsOf(SubSeq(reply, k + 1, Len(reply))))

\* A call returned whose initial reply was a tool-use block followed by a text.
C1_Witness ==
    /\ pc = "print"
    /\ Len(reply) = 2
    /\ reply[1].kind = "toolUse"
    /\ reply[2].kind = "text"

\* C2: no recursive tool chaining.  The invocations made so far are, in order,
\* the first tool-use blocks of the initial reply; every LLM call after the
\* first follows one invocation; no tool-use block of a follow-up reply is
\* invoked; and a returning call has made as many invocations as the initial
\* reply holds tool-use blocks and one LLM call more than that.
C2_NoToolChaining ==
    /\ Len(invocations) <= Cardinality(ToolUseIdxs(reply))
    /\ \A k \in 1..Len(invocations) :
         /\ invocations[k].block \in ToolUseIdxs(reply)
         /\ Cardinality({ i \in ToolUseIdxs(reply) : i <= invocations[k].block }) = k
         /\ invocations[k].name = reply[invocations[k].block].name
         /\ invocations[k].args = reply[invocations[k].block].input
         /\ \A j \in 1..Len(followups) : \A i \in 1..Len(followups[j]) :
              followups[j][i].kind = "toolUse" =>
                  invocations[k].args # followups[j][i].input
    /\ Len(requests) <= 1 + Len(invocations)
    /\ Len(followups) <= Len(invocations)
    /\ pc = "print" =>
         /\ Len(invocations) = Cardinality(ToolUseIdxs(reply))
         /\ Len(requests) = 1 + Cardinality(ToolUseIdxs(reply))

\* A call returned after two tool invocations, one of whose follow-up replies
\* asked for another tool.
C2_Witness ==
    /\ pc = "print"
    /\ Len(invocations) = 2
    /\ \E j \in 1..Len(followups) : \E i \in 1..Len(followups[j]) :
         followups[j][i].kind = "toolUse"

\* C3: the tool-result block of the k-th invocation carries the call id of
\* the tool-use block that was invoked and the text content that invocation
\* returned; it is a user message placed directly after the assistant
\* message that contains the tool-use block; and the follow-up LLM request
\* is made with the history ending in that tool result.
C3_ToolResultMatchesRequest ==
    /\ messages # <<>> => Len(messages) = 1 + 2 * Len(invocations)
    /\ \A k \in 1..Len(invocations) :
         LET inv == invocations[k]
             blk == reply[inv.block]
             sent == Materialize(messages, assistant_message_content)
         IN /\ Len(messages) >= 2 * k + 1
            /\ sent[2 * k + 1].role = "user"
            /\ Len(sent[2 * k + 1].content) = 1
            /\ sent[2 * k + 1].content[1].kind = "toolResult"
            /\ sent[2 * k + 1].content[1].id = blk.id
            /\ sent[2 * k + 1].content[1].content = TextItemsOf(inv.result)
            /\ sent[2 * k].role = "assistant"
            /\ \E j \in 1..Len(sent[2 * k].content) : sent[2 * k].content[j] = blk
            /\ Len(requests) >= k + 1 =>
                 /\ Len(requests[k + 1]) = 2 * k + 1
                 /\ requests[k + 1][2 * k + 1] = sent[2 * k + 1]
    /\ pc = "pq_followup" => Len(requests) = Len(invocations)

\* The second tool result of a call has been appended and the follow-up call
\* is about to be made; the two tool-use blocks carry different ids.
C3_Witness ==
    /\ pc = "pq_followup"
    /\ Len(invocations) = 2
    /\ reply[1].id # reply[2].id

BlockTokens(b) ==
    { b.text[i] : i \in 1..Len(b.text) }
    \cup { b.name, b.input, b.id }
    \cup UNION { { b.content[j][i] : i \in 1..Len(b.content[j]) } : j \in 1..Len(b.content) }

MessagesTokens(ms) ==
    UNION { UNION { BlockTokens(ms[i].content[j]) : j \in 1..Len(ms[i].content) }
            : i \in 1..Len(ms) }

\* Tokens of an earlier turn.
Earlier(tokens) == { t \in tokens : t.q # 0 /\ t.q # turn }

\* C4: no cross-call memory.  The first LLM request of a call is exactly one
\* user message holding the query text, and nothing that an LLM request, the
\* message history, the output buffer or the returned text holds comes from an
\* earlier turn.
C4_NoCrossCallMemory ==
    /\ requests # <<>> =>
         requests[1] = << [role |-> "user",
                           content |-> << [kind |-> "text", text |-> query,
                                           name |-> [q |-> 0, v |-> ""],
                                           input |-> [q |-> 0, v |-> ""],
                                           id |-> [q |-> 0, v |-> ""],
                                           content |-> <<>>] >>] >>
    /\ \A r \in 1..Len(requests) : Earlier(MessagesTokens(requests[r])) = {}
    /\ Earlier(MessagesTokens(Materialize(messages, assistant_message_content))) = {}
    /\ \A i \in 1..Len(final_text) : Earlier({ final_text[i][j] : j \in 1..Len(final_text[i]) }) = {}
    /\ Earlier({ response[i] : i \in 1..Len(response) }) = {}

\* The second query of a session returned after a tool call.
C4_Witness ==
    /\ turn = 2
    /\ pc = "print"
    /\ Len(requests) = 2
    /\ query # <<>>

\* C5: an error raised while a query is processed is caught and printed, the
\* connection stays open and the loop reads the next line; a line that was
\* read leaves the loop exactly when it is `quit`.
C5_LoopSurvivesErrors ==
    [][ /\ (pc = "except" /\ ~exc.base) =>
              /\ pc' = "input"
              /\ printed' = Append(printed, [kind |-> "error", what |-> exc.type])
              /\ exit_stack # <<>>
              /\ exit_stack' = exit_stack
              /\ released' = <<>>
        /\ (pc = "input" /\ turn' # turn) =>
              ((Lower(Untag(query')) = <<"q", "u", "i", "t">>) <=> (pc' = "finally"))
      ]_vars

\* The loop is back at its input after a failed tool call was printed, with
\* the connection still held.
C5_Witness ==
    /\ pc = "input"
    /\ printed = << [kind |-> "error", what |-> "ToolError"] >>
    /\ exit_stack # <<>>
    /\ released = <<>>

\* C6: in the local client nothing is released twice, only what was acquired
\* is released, and when main has ended every acquired resource has been
\* released, in reverse acquisition order.
C6_ReleaseOnEveryExit ==
    prog = "local" =>
        /\ NoDuplicates(released)
        /\ \A i \in 1..Len(released) : \E j \in 1..Len(acquired) : released[i] = acquired[j]
        /\ pc = "done" =>
             /\ exit_stack = <<>>
             /\ Len(released) = Len(acquired)
             /\ \A i \in 1..Len(acquired) : released[i] = acquired[Len(acquired) + 1 - i]

\* main of the local client ended by an error that escaped the chat loop,
\* with both resources acquired.
C6_Witness ==
    /\ prog = "local"
    /\ pc = "done"
    /\ acquired = <<"stdio_transport", "session">>
    /\ exc.base

\* ------------------------------------------------- one-shot clients' claims
ServerOps == {"ping", "list_prompts", "list_resources", "list_resource_templates",
              "get_prompt", "read_resource"}

Batch == prog \in {"blog", "sales"}

\* C7: in the run of the blog-post client and of the sales-data client, every
\* server call is made while the connection is open, the connection is never
\* closed more often than it was opened, and when the program has ended,
\* whichever way (return, parse error, lookup error, LLM error, process exit
\* after a failed sales read), the connection it opened has been closed
\* exactly once.
C7_CallsWhileOpenClosedOnce ==
    Batch =>
        /\ \A i \in 1..Len(trace) : trace[i].op \in ServerOps => trace[i].open
        /\ Len(acquired) <= 1
        /\ Len(released) <= Len(acquired)
        /\ pc = "done" => released = acquired /\ exit_stack = <<>>

\* The sales client ended by the process exit after a failed sales read, the
\* connection closed once.
C7_Witness ==
    /\ prog = "sales" /\ pc = "done"
    /\ exc = BaseExc("SystemExit")
    /\ trace # <<>> /\ trace[Len(trace)].op = "read_resource"
    /\ acquired = <<"client">> /\ released = <<"client">>

ExpectedOps ==
    <<"ping", "list_prompts", "get_prompt", "converse", "get_prompt", "converse",
      "get_prompt", "converse", "get_prompt", "converse">>
ExpectedPrompts ==
    <<"", "", "Get Keywords From Code", "", "Get Intro From Keywords", "",
      "Get Main Section From Code", "", "Aggregate Blog Sections", "">>

Succeeded == status \in {"returned", "exit0"}
ReplyText(i) == FirstText(trace[i].reply).text
RenderedPrompts == {i \in 1..Len(trace) : trace[i].op = "get_prompt"}
LlmCalls == {i \in 1..Len(trace) : trace[i].op = "converse"}
Last == Len(trace)

\* C8: the calls of a blog-post run are, at every moment, an initial part of
\* ping, list prompts, then for the keyword, intro, main and aggregate step
\* the step's prompt rendering followed by its LLM call on that rendering;
\* a call is made only after the LLM call before it was answered with a
\* text; a successful run has rendered four prompts and made four LLM
\* calls, its aggregate prompt got the intro reply, the main reply and the
\* fixed outlook text, and its result is the reply to the aggregate call.
C8_BlogStepOrder ==
    prog = "blog" =>
        /\ Len(trace) <= Len(ExpectedOps)
        /\ \A i \in 1..Len(trace) :
             /\ trace[i].op = ExpectedOps[i]
             /\ trace[i].name = ExpectedPrompts[i]
             /\ trace[i].op = "converse" =>
                  trace[i].text = MessageText(Render(trace[i - 1].name, trace[i - 1].args))
             /\ (i > 1 /\ trace[i - 1].op = "converse") => FirstText(trace[i - 1].reply).ok
        /\ Succeeded =>
             /\ Len(trace) = Len(ExpectedOps)
             /\ Cardinality(RenderedPrompts) = 4 /\ Cardinality(LlmCalls) = 4
             /\ trace[Last - 1].args.intro = ReplyText(Last - 4)
             /\ trace[Last - 1].args.main = ReplyText(Last - 2)
             /\ trace[Last - 1].args.outlook = outlook_text
             /\ ReplyText(Last - 4) \in IntroTexts /\ ReplyText(Last - 2) \in MainTexts
             /\ FirstText(trace[Last].reply).ok /\ result = ReplyText(Last)

\* A blog-post run that returned the aggregate reply and printed it.
C8_Witness ==
    /\ prog = "blog" /\ status = "exit0" /\ pc = "done"
    /\ result \in AggregateTexts
    /\ Len(trace) = Len(ExpectedOps)

RECURSIVE PyTokens(_), PyTokensOf(_)
\* Every token inside a Python value.
PyTokens(v) == (IF v.s = NoTok THEN <<>> ELSE <<v.s>>) \o PyTokensOf(v.xs)
PyTokensOf(xs) == IF xs = <<>> THEN <<>> ELSE PyTokens(Head(xs)) \o PyTokensOf(Tail(xs))

\* Every token a call sends out.
RequestTokens(ev) ==
    ev.text \o ev.system \o ev.uri \o ev.args.code \o PyTokens(ev.args.keywords)
    \o ev.args.intro \o ev.args.main \o ev.args.outlook

FromKeywordReply(ts) == \E j \in 1..Len(ts) : ts[j].q = "keyword_reply"

\* The position of the keyword step's LLM call among a run's calls.
KeywordCall == 1 + CHOOSE i \in 1..Len(ExpectedPrompts) : ExpectedPrompts[i] = "Get Keywords From Code"

\* C9: whatever the keyword step returned, the intro and the main prompt are
\* requested with the literal list ["MCP", "FastMCP", "Prompts"], and no
\* prompt request or LLM request made after the keyword step carries any
\* text of the keyword reply.
C9_ExtractedKeywordsDiscarded ==
    prog = "blog" =>
        \A i \in 1..Len(trace) :
            /\ trace[i].name \in {"Get Intro From Keywords", "Get Main Section From Code"}
                 => trace[i].args.keywords = FixedKeywords
            /\ i > KeywordCall => ~FromKeywordReply(RequestTokens(trace[i]))

\* The keyword step returned a value holding keywords of the reply, and the
\* intro and main steps have been invoked since.
C9_Witness ==
    /\ prog = "blog"
    /\ FromKeywordReply(PyTokens(keywords))
    /\ \E i \in 1..Len(trace) : trace[i].name = "Get Main Section From Code"
    /\ \E i \in 1..Len(trace) : trace[i].name = "Get Intro From Keywords"

FencedAB ==
    <<K("fence", "json"), K("ws", "\n")>> \o KeywordObject("keywords", ValsAB)
    \o <<K("ws", "\n"), K("fence", "")>>

\* The value stored under the key "keywords" of a parsed object.
KeywordsEntry(parsed) ==
    parsed.xs[CHOOSE i \in 1..Len(parsed.xs) : parsed.xs[i].s.v = "keywords"].xs[1]

HasKeywordsEntry(parsed) ==
    parsed.t = "dict" /\ \E i \in 1..Len(parsed.xs) : parsed.xs[i].s.v = "keywords"

KeywordStepReturned == prog = "blog" /\ Len(trace) >= KeywordCall /\ keywords # PyNone

\* C10: when the keyword step has returned for a reply that is the object
\* {"keywords": ["A","B"]} inside json fences, the value it returned is the
\* list ["A","B"]; and for every reply that parses to an object with the key
\* keywords, the value returned is the one stored under that key.
C10_KeywordStepReturnsList ==
    KeywordStepReturned =>
        LET text == ReplyText(KeywordCall)
            parsed == JsonLoads(StripFences(text)).val
        IN /\ text = FencedAB =>
                keywords = PyList(<<PyStr(K("str", "A")), PyStr(K("str", "B"))>>)
           /\ HasKeywordsEntry(parsed) => keywords = KeywordsEntry(parsed)

\* Whether the first text of the keyword call's reply fails to parse as JSON
\* once the fences are taken out.
KeywordReplyInvalid ==
    /\ Len(trace) >= KeywordCall
    /\ FirstText(trace[KeywordCall].reply).ok
    /\ ~JsonLoads(StripFences(ReplyText(KeywordCall))).ok

\* C11: once the keyword step's LLM reply has turned out not to be valid JSON
\* after fence-stripping, the error in flight is "Error Loading Keyword
\* Response", the keyword call stays the last call of the run (no intro, main
\* or aggregate prompt, no further LLM call, no second keyword call), nothing
\* was returned by any step, and the run does not succeed.
C11_KeywordParseErrorAborts ==
    (prog = "blog" /\ KeywordReplyInvalid) =>
        /\ exc.type = "ValueError" /\ exc.msg = "Error Loading Keyword Response"
        /\ Len(trace) = KeywordCall
        /\ Cardinality(RenderedPrompts) = 1 /\ Cardinality(LlmCalls) = 1
        /\ keywords = PyNone /\ intro = <<>> /\ main_part = <<>> /\ result = <<>>
        /\ pc \in {"aexit", "done"}
        /\ ~Succeeded

\* The run has ended on a keyword reply of prose followed by the object.
C11_Witness ==
    /\ prog = "blog" /\ pc = "done" /\ status = "exit1"
    /\ KeywordReplyInvalid
    /\ ReplyText(KeywordCall) = <<K("word", "Sure!"), K("ws", " ")>> \o KeywordObject("keywords", ValsAB)

BeforeConstruct == {"b_main", "b_construct"}
BeforeReadCode == BeforeConstruct \cup {"b_argv", "b_run"}

\* C12: when the server script path is not an existing file, the blog
\* client's construction fails; when the code file does not exist, run fails;
\* in both cases the program ends with the failed check as its error, no
\* connection was opened, and no server call and no LLM call was made.
C12_ConfigErrorsFatalBeforeWork ==
    prog = "blog" =>
        /\ (nargs >= 1 /\ ~script_is_file /\ pc \notin BeforeConstruct) =>
              /\ pc = "done" /\ status = "exit1" /\ exc.type = "AssertionError"
              /\ acquired = <<>> /\ trace = <<>>
        /\ (nargs >= 2 /\ script_is_file /\ ~code_is_file /\ pc \notin BeforeReadCode) =>
              /\ pc = "done" /\ status = "exit1" /\ exc.type = "AssertionError"
              /\ acquired = <<>> /\ trace = <<>> /\ code = <<>>

\* run was called with a code file that does not exist, and has failed.
C12_Witness ==
    /\ prog = "blog" /\ nargs >= 2 /\ script_is_file /\ ~code_is_file
    /\ pc = "done" /\ exc.type = "AssertionError" /\ exc.msg = ""

\* C13: the blog client's command line, given fewer than 2 arguments, prints
\* the usage message and exits with status 1; no client is constructed and no
\* connection opened.
C13_UsageOnFewerThanTwoArguments ==
    (prog = "blog" /\ nargs < 2 /\ pc # "b_main") =>
        /\ pc = "done" /\ status = "exit1"
        /\ exc = BaseExc("SystemExit")
        /\ printed = <<[kind |-> "usage", what |-> "Usage"]>>
        /\ acquired = <<>>

Printed(what) == \E i \in 1..Len(printed) : printed[i].what = what
ReadCalls == {i \in 1..Len(trace) : trace[i].op = "read_resource"}
Named(list, name) == {i \in 1..Len(list) : list[i].name = name}
Min(S) == CHOOSE x \in S : \A y \in S : x <= y
Max(S) == CHOOSE x \in S : \A y \in S : x >= y

\* The README lookup has been made: both listings were printed and the
\* program has moved on.
ReadmeLookedUp ==
    /\ prog = "sales" /\ Printed("Available Resources Templates")
    /\ pc \notin {"s_list_templates", "s_readme"}
\* The get_sales lookup has been made: the README was read.
SalesLookedUp ==
    /\ ReadmeLookedUp /\ readme_content # <<>> /\ pc # "s_sales"

\* C14: a lookup that finds the name uses the first listed entry with
\* exactly that name (the README read goes to that entry's URI, the sales
\* read to that entry's template filled in); a lookup that finds none fails
\* with KeyError "Resource <name> not found", and then the run makes no
\* read_resource call after the lookup and no LLM call.
C14_LookupFirstMatchOrError ==
    /\ ReadmeLookedUp =>
         IF Named(resources, "README") = {}
         THEN /\ exc = ExcMsg("KeyError", "Resource README not found")
              /\ ReadCalls = {} /\ LlmCalls = {}
              /\ pc \in {"aexit", "done"} /\ ~Succeeded
         ELSE /\ ReadCalls # {}
              /\ trace[Min(ReadCalls)].uri = resources[Min(Named(resources, "README"))].uri
    /\ SalesLookedUp =>
         IF Named(resource_templates, "get_sales") = {}
         THEN /\ exc = ExcMsg("KeyError", "Resource get_sales not found")
              /\ Cardinality(ReadCalls) = 1 /\ LlmCalls = {}
              /\ pc \in {"aexit", "done"} /\ ~Succeeded
         ELSE LET tpl == resource_templates[Min(Named(resource_templates, "get_sales"))].uri
                  uri == Format(tpl, inputs.year, inputs.month)
              IN IF uri.ok
                 THEN Cardinality(ReadCalls) = 2 /\ trace[Max(ReadCalls)].uri = uri.uri
                 ELSE Cardinality(ReadCalls) = 1 /\ exc.type = "KeyError"

\* get_sales is missing from the templates, README is listed twice and was
\* read; the run has ended.
C14_Witness ==
    /\ SalesLookedUp /\ pc = "done"
    /\ Cardinality(Named(resources, "README")) > 1
    /\ Named(resource_templates, "get_sales") = {}
    /\ exc.type = "KeyError"

\* The read of the substituted get_sales resource has failed with an error
\* the handler at line 125 catches.
SalesReadFailed == prog = "sales" /\ Printed("Error fetching sales data")

\* C15: when the sales read fails, the client prints the error and the
\* process terminates with exit code 1: the error leaving run is the process
\* exit and no other exception reaches run's caller; no LLM call is made.
\* When the run succeeds, it made exactly one LLM call, after two reads.
C15_SalesReadFailureExitsProcess ==
    /\ SalesReadFailed =>
         /\ exc = BaseExc("SystemExit")
         /\ LlmCalls = {}
         /\ pc = "done" => status = "exit1"
    /\ (prog = "sales" /\ Succeeded) =>
         /\ LlmCalls = {Last}
         /\ Cardinality(ReadCalls) = 2
         /\ readme_content # <<>> /\ month_sales # <<>>

\* ----------------------------------------------------------- servers' claims
SalesCallDone == prog = "sales_server" /\ tool = "get_sales" /\ pc = "idle" /\ ret.kind # "none"

\* The path of the month's file, the month in lower case.
ExpectedFile ==
    "data/sales_data/" \o LowerStr(call_args.month) \o "_" \o call_args.year \o ".csv"

\* The result is the rows of the file as field-to-value records, in file order.
RowsReturned(content) ==
    /\ ret.kind = "return" /\ ret.val.t = "list"
    /\ Len(ret.val.xs) = Len(content.rows)
    /\ \A i \in 1..Len(content.rows) :
         /\ ret.val.xs[i].t = "dict"
         /\ Len(ret.val.xs[i].xs) = Len(content.header)
         /\ \A j \in 1..Len(content.header) :
              /\ ret.val.xs[i].xs[j].s.v = content.header[j]
              /\ ret.val.xs[i].xs[j].xs[1].s = content.rows[i][j]

\* The call failed with a not-found error whose message holds the path.
NotFoundWithPath ==
    /\ ret.kind = "raise" /\ ret.err = "FileNotFoundError"
    /\ \E k \in 1..Len(ret.msg) : ret.msg[k] = ExpectedFile

\* C16 as stated: get_sales depends on the existence of <month>_<year>.csv
\* with the month in lower case only: when the file exists the result is its
\* rows as records in file order, when it does not the call fails with a
\* not-found error whose message contains the path.
C16_PartitionOnFileExistence ==
    SalesCallDone =>
        IF IsFile(world.files, ExpectedFile)
        THEN RowsReturned(ContentOf(world.files, ExpectedFile))
        ELSE NotFoundWithPath

\* C16, amended: the month is lower-cased before the path is built; when the
\* file exists and parses as CSV the result is its rows as records in file
\* order; when it exists but has nothing to parse the call fails with the
\* parser's error; when it does not exist the call fails with a not-found
\* error whose message contains the path, and returns nothing.
C16_ExistingParsableFileOrError ==
    SalesCallDone =>
        /\ sales_csv_file = ExpectedFile
        /\ IF ~IsFile(world.files, ExpectedFile) THEN NotFoundWithPath
           ELSE IF ContentOf(world.files, ExpectedFile).kind = "csv"
           THEN RowsReturned(ContentOf(world.files, ExpectedFile))
           ELSE ret.kind = "raise" /\ ret.err # "FileNotFoundError"

\* get_sales("2024", "March") has returned the two rows of march_2024.csv
\* while a file March_2024.csv also exists.
C16_Witness ==
    /\ SalesCallDone /\ call_args.month = "March" /\ call_args.year = "2024"
    /\ IsFile(world.files, "data/sales_data/March_2024.csv")
    /\ ret.kind = "return" /\ Len(ret.val.xs) = 2
    /\ ret.val.xs[1].xs[1].xs[1].s.v = "2"

AlertsDone == prog = "weather_server" /\ tool = "get_alerts" /\ pc = "idle" /\ ret.kind # "none"
ForecastDone == prog = "weather_server" /\ tool = "get_forecast" /\ pc = "idle" /\ ret.kind # "none"

Failed(n) == world.answers[n].kind # "json"
Body(n) == world.answers[n].body
\* The fetch gave nothing: it failed, or its body is null or empty.
NoData(n) ==
    \/ Failed(n)
    \/ Body(n).t = "none"
    \/ Body(n).t \in {"dict", "list"} /\ Body(n).xs = <<>>
IsObject(v) == v.t = "dict"
HasFeatures == ~NoData(1) /\ IsObject(Body(1)) /\ HasKey(Body(1), "features")
FeaturesOf == ValueAt(Body(1), "features")
WithProperties(feature) ==
    IsObject(feature) /\ HasKey(feature, "properties")
    /\ IsObject(ValueAt(feature, "properties"))

AlertBlocks == [i \in 1..Len(FeaturesOf.xs) |-> format_alert(FeaturesOf.xs[i]).text]
Returned(text) == ret.kind = "return" /\ ret.text = text /\ ret.val = PyNone

\* C17 as stated: get_alerts returns the "Unable" sentence when the fetch
\* gave no data or a body without a features field, the "No active alerts"
\* sentence when features is an empty list, and in every other case one
\* block per feature, in order, joined by "\n---\n".
C17_ThreeCasesCoverEveryOutcome ==
    AlertsDone =>
        IF ~HasFeatures
        THEN Returned(<<BLit("Unable to fetch alerts or no alerts found.")>>)
        ELSE IF FeaturesOf = PyList(<<>>)
        THEN Returned(<<BLit("No active alerts for this state.")>>)
        ELSE Returned(Join(AlertBlocks, <<BLit("\n---\n")>>))

\* C17, amended: the "Unable" sentence when the fetch gave no data or an
\* object without a features field; the "No active alerts" sentence when
\* the object's features is an empty list or null; for a non-empty list of
\* features that each have a properties object, one block per feature, in
\* order, joined by "\n---\n"; a non-empty features list with a feature
\* that has no properties object makes the call raise.
C17_ThreeCasesOnWellFormedBodies ==
    AlertsDone =>
        /\ (NoData(1) \/ (IsObject(Body(1)) /\ ~HasKey(Body(1), "features"))) =>
              Returned(<<BLit("Unable to fetch alerts or no alerts found.")>>)
        /\ (HasFeatures /\ FeaturesOf \in {PyList(<<>>), PyNone}) =>
              Returned(<<BLit("No active alerts for this state.")>>)
        /\ (HasFeatures /\ FeaturesOf.t = "list" /\ FeaturesOf.xs # <<>>) =>
              IF \A i \in 1..Len(FeaturesOf.xs) : WithProperties(FeaturesOf.xs[i])
              THEN /\ Returned(Join(AlertBlocks, <<BLit("\n---\n")>>))
                   /\ ret.text # <<BLit("Unable to fetch alerts or no alerts found.")>>
                   /\ ret.text # <<BLit("No active alerts for this state.")>>
              ELSE ret.kind = "raise"

\* get_alerts has rendered three features.
C17_Witness ==
    /\ AlertsDone /\ HasFeatures /\ FeaturesOf.t = "list" /\ Len(FeaturesOf.xs) = 3
    /\ ret.kind = "return"
    /\ Cardinality({i \in 1..Len(ret.text) : ret.text[i] = BLit("\n---\n")}) = 2

\* The text of one field of a block: the field's own value, or the default.
FieldText(props, key, default) ==
    IF HasKey(props, key) THEN Str(ValueAt(props, key)) ELSE <<BLit(default)>>

ExpectedBlock(props) ==
    <<BLit("\n        Event: ")>> \o FieldText(props, "event", "Unknown")
    \o <<BLit("\n        Area: ")>> \o FieldText(props, "areaDesc", "Unknown")
    \o <<BLit("\n        Severity: ")>> \o FieldText(props, "severity", "Unknown")
    \o <<BLit("\n        Description: ")>>
    \o FieldText(props, "description", "No description available")
    \o <<BLit("\n        Instructions: ")>>
    \o FieldText(props, "instruction", "No specific instructions provided")
    \o <<BLit("\n    ")>>

AllWithProperties ==
    /\ HasFeatures /\ FeaturesOf.t = "list" /\ FeaturesOf.xs # <<>>
    /\ \A i \in 1..Len(FeaturesOf.xs) : WithProperties(FeaturesOf.xs[i])

\* C18: when get_alerts renders features, every block shows for each of the
\* five fields the feature's own value when it has the field and the field's
\* default when it has not ("Unknown" for event, areaDesc and severity, "No
\* description available", "No specific instructions provided"), and the
\* call returns whichever fields are missing.
C18_MissingFieldsGetDefaults ==
    (AlertsDone /\ AllWithProperties) =>
        /\ ret.kind = "return"
        /\ ret.text = Join([i \in 1..Len(FeaturesOf.xs) |->
                              ExpectedBlock(ValueAt(FeaturesOf.xs[i], "properties"))],
                           <<BLit("\n---\n")>>)

\* A feature without event and severity, and one without any field, have
\* been rendered.
C18_Witness ==
    /\ AlertsDone /\ AllWithProperties /\ ret.kind = "return"
    /\ \E i \in 1..Len(FeaturesOf.xs) :
         LET props == ValueAt(FeaturesOf.xs[i], "properties") IN
         ~HasKey(props, "event") /\ ~HasKey(props, "severity") /\ HasKey(props, "areaDesc")
    /\ \E i \in 1..Len(FeaturesOf.xs) : ValueAt(FeaturesOf.xs[i], "properties").xs = <<>>
    /\ \E k \in 1..Len(ret.text) : ret.text[k] = BLit("No specific instructions provided")

WeatherDone == AlertsDone \/ ForecastDone

\* C19 as stated: for every outcome of the requests, get_alerts and
\* get_forecast return a string and never raise.
C19_WeatherToolsNeverRaise ==
    WeatherDone => ret.kind = "return"

Fallbacks ==
    { <<BLit("Unable to fetch alerts or no alerts found.")>>,
      <<BLit("Unable to fetch forecast data for this location.")>>,
      <<BLit("Unable to fetch detailed forecast.")>> }

\* C19, amended: a failed request (network error, timeout, non-2xx status,
\* body that is not JSON) never reaches the caller as an exception: the tool
\* returns one of the fixed fallback sentences. A tool raises only after a
\* request that succeeded with a JSON body, and then a KeyError, TypeError
\* or AttributeError from the body's shape.
C19_RequestFailuresBecomeFallbacks ==
    WeatherDone =>
        /\ Failed(Len(http)) => ret.kind = "return" /\ ret.text \in Fallbacks
        /\ ret.kind = "raise" =>
              /\ ~Failed(Len(http))
              /\ ret.err \in {"KeyError", "TypeError", "AttributeError"}
        /\ ret.kind \in {"return", "raise"}

\* get_forecast ended after its second request timed out.
C19_Witness ==
    /\ ForecastDone /\ Len(http) = 2
    /\ world.answers[2].kind = "timeout"
    /\ ret.kind = "return"

PointsUrl ==
    <<BLit("https://api.weather.gov"), BLit("/points/"), W("arg", call_args.latitude),
      BLit(","), W("arg", call_args.longitude)>>

\* C20: get_forecast requests the points URL first and the forecast URL of
\* the points answer second, each at most once (at most two requests in a
\* call); when the points request fails it returns "Unable to fetch forecast
\* data for this location." and no second request is made; when the points
\* request succeeded and the forecast request fails it returns "Unable to
\* fetch detailed forecast.".
C20_ForecastRequestsInOrderOnce ==
    (prog = "weather_server" /\ tool = "get_forecast") =>
        /\ Len(http) <= 2
        /\ Len(http) >= 1 => http[1] = PointsUrl
        /\ Len(http) = 2 =>
              /\ ~Failed(1)
              /\ http[2] = <<ValueAt(ValueAt(Body(1), "properties"), "forecast").s>>
              /\ http[2] # http[1]
        /\ (ForecastDone /\ Failed(1)) =>
              /\ Returned(<<BLit("Unable to fetch forecast data for this location.")>>)
              /\ Len(http) = 1
        /\ (ForecastDone /\ Len(http) = 2 /\ Failed(2)) =>
              Returned(<<BLit("Unable to fetch detailed forecast.")>>)
        /\ (ForecastDone /\ ~Failed(1) /\ Failed(2) /\ forecast_url(Body(1)).ok) =>
              Len(http) = 2

\* A call made both requests, the second failed, and it has returned.
C20_Witness ==
    /\ ForecastDone /\ Len(http) = 2 /\ ~Failed(1) /\ Failed(2)
    /\ Returned(<<BLit("Unable to fetch detailed forecast.")>>)

PeriodKeys == {"name", "temperature", "temperatureUnit", "windSpeed", "windDirection",
               "detailedForecast"}
Field(period, key) == ValueAt(period, key).s

ExpectedPeriodBlock(period) ==
    <<BLit("\n            "), Field(period, "name"), BLit(":"),
      BLit("\n            Temperature: "), Field(period, "temperature"), BLit("deg"),
      Field(period, "temperatureUnit"),
      BLit("\n            Wind: "), Field(period, "windSpeed"), BLit(" "),
      Field(period, "windDirection"),
      BLit("\n            Forecast: "), Field(period, "detailedForecast"),
      BLit("\n            ")>>

\* The forecast answer of the call holds a list of periods.
HasPeriods ==
    /\ ForecastDone /\ Len(http) = 2 /\ ~NoData(2)
    /\ IsObject(Body(2)) /\ HasKey(Body(2), "properties")
    /\ IsObject(ValueAt(Body(2), "properties"))
    /\ HasKey(ValueAt(Body(2), "properties"), "periods")
    /\ ValueAt(ValueAt(Body(2), "properties"), "periods").t = "list"
PeriodsOf == ValueAt(ValueAt(Body(2), "properties"), "periods").xs
FirstFive == IF Len(PeriodsOf) < 5 THEN Len(PeriodsOf) ELSE 5
Complete(period) == IsObject(period) /\ \A k \in PeriodKeys : HasKey(period, k)

\* C21: for a forecast answer of n periods, get_forecast returns the blocks
\* of the first min(5, n) periods, in the answer's order, joined by
\* "\n---\n"; later periods leave no trace in the result.
C21_FirstFivePeriodsRendered ==
    (HasPeriods /\ \A i \in 1..FirstFive : Complete(PeriodsOf[i])) =>
        Returned(Join([i \in 1..FirstFive |-> ExpectedPeriodBlock(PeriodsOf[i])],
                      <<BLit("\n---\n")>>))

\* A forecast of eight periods was rendered as five blocks, the sixth period
\* absent.
C21_Witness ==
    /\ HasPeriods /\ Len(PeriodsOf) = 8 /\ ret.kind = "return"
    /\ Cardinality({i \in 1..Len(ret.text) : ret.text[i] = BLit("\n---\n")}) = 4
    /\ \E i \in 1..Len(ret.text) : ret.text[i] = Field(PeriodsOf[5], "name")
    /\ ~\E i \in 1..Len(ret.text) : ret.text[i] = Field(PeriodsOf[6], "name")

\* ------------------------------------------------------ space news claims
InNewsCall == prog = "news_server" /\ tool = "get_todays_spacenews"
NewsDone == InNewsCall /\ pc = "idle" /\ ret.kind # "none"

HasResults == ~Failed(1) /\ IsObject(Body(1)) /\ HasKey(Body(1), "results")
ArticlesOf == ValueAt(Body(1), "results").xs
\* The fetch returned data: a non-empty list of articles, each with a title
\* and a summary.
FetchReturnedData ==
    /\ HasResults /\ ValueAt(Body(1), "results").t = "list" /\ ArticlesOf # <<>>
    /\ \A i \in 1..Len(ArticlesOf) :
         /\ IsObject(ArticlesOf[i])
         /\ HasKey(ArticlesOf[i], "title") /\ HasKey(ArticlesOf[i], "summary")
\* The API call failed, or it returned no results.
NewsApiFailed == Failed(1) \/ ~HasResults
NoResults == HasResults /\ ValueAt(Body(1), "results") = PyList(<<>>)

TitleAndSummary(article) ==
    PyDict(<< PyItem(BLit("title"), ValueAt(article, "title")),
              PyItem(BLit("summary"), ValueAt(article, "summary")) >>)

\* C22: with language "EN" and a fetch that returned data, the call never
\* samples, and it returns one {title, summary} record per fetched article,
\* in fetch order, without the articles' other fields.
C22_EnglishReturnsRecordsUnsampled ==
    (InNewsCall /\ call_args.language = "EN" /\ FetchReturnedData) =>
        /\ sampled = <<>>
        /\ NewsDone =>
             /\ ret.kind = "return" /\ ret.text = <<>>
             /\ ret.val = PyList([i \in 1..Len(ArticlesOf) |-> TitleAndSummary(ArticlesOf[i])])

\* Two articles came back in English, as two records of two entries each.
C22_Witness ==
    /\ NewsDone /\ call_args.language = "EN" /\ FetchReturnedData
    /\ Len(ArticlesOf) = 2 /\ Len(ArticlesOf[1].xs) = 4
    /\ ret.kind = "return" /\ Len(ret.val.xs) = 2 /\ Len(ret.val.xs[1].xs) = 2

\* C23: with a language other than "EN" and a fetch that returned data, the
\* call samples exactly once and only after the fetch; a raising sample makes
\* the call fail with "Translation failed, LLM Sampling not available."
\* without a second attempt, and an answering sample is returned as it is.
C23_OtherLanguageSamplesOnce ==
    (InNewsCall /\ call_args.language # "EN" /\ FetchReturnedData) =>
        /\ Len(sampled) <= 1
        /\ sampled # <<>> => Len(http) = 1 /\ Len(fetched) = 1
        /\ NewsDone =>
             /\ Len(sampled) = 1
             /\ world.sample.kind = "raise" =>
                  ret = Raise("FastMCPError",
                              <<BLit("Translation failed, LLM Sampling not available.")>>)
             /\ world.sample.kind = "response" => ret = ReturnVal(world.sample.val)

\* A call in lower-case "en" sampled once, the sample raised, and the call
\* failed.
C23_Witness ==
    /\ NewsDone /\ call_args.language = "en" /\ FetchReturnedData
    /\ world.sample.kind = "raise" /\ Len(sampled) = 1
    /\ ret.kind = "raise" /\ ret.err = "FastMCPError"

\* C24: when the news request fails (no connection, a status that is not
\* 2xx, a body that is not JSON, no results key) or brings no results, the
\* call fails with "API Call Failed." whatever the language, and never
\* samples.
C24_FailedFetchIsApiCallFailed ==
    (InNewsCall /\ (NewsApiFailed \/ NoResults)) =>
        /\ sampled = <<>>
        /\ NewsDone => ret = Raise("FastMCPError", <<BLit("API Call Failed.")>>)

\* A German call whose fetch brought an empty result list failed.
C24_Witness ==
    /\ NewsDone /\ call_args.language = "DE" /\ NoResults
    /\ ret.kind = "raise" /\ ret.msg = <<BLit("API Call Failed.")>>

\* ------------------------------------------------- chat clients, continued
\* C25: in the OAuth client an error of the get_user_info smoke test is
\* caught by its handler and printed, and the program goes on to the chat
\* loop's input with the connection it opened still held and unreleased.
C25_SmokeTestFailureNotFatal ==
    [][ (prog = "oauth" /\ pc = "smoke_except" /\ ~exc.base) =>
            /\ pc' = "input"
            /\ printed' = Append(printed, [kind |-> "error", what |-> exc.type])
            /\ exc' = NoExc
            /\ exit_stack = <<"client">>
            /\ exit_stack' = exit_stack
            /\ released' = <<>>
            /\ turn' = 0
      ]_vars

\* The chat loop is about to read its first line after the smoke test's
\* tool error was printed; the connection is open.
C25_Witness ==
    /\ prog = "oauth" /\ pc = "input" /\ turn = 0
    /\ printed # <<>>
    /\ printed[Len(printed)] = [kind |-> "error", what |-> "ToolError"]
    /\ exit_stack = <<"client">> /\ released = <<>>

IsTextItem(item) == item.type = "text"
\* The tool-result block sent with the request that follows invocation k.
SentToolResult(k) == requests[k + 1][Len(requests[k + 1])].content[1]

\* C26: the tool-result block sent to the LLM after an invocation holds one
\* text entry per text-typed item of the tool's result, in the result's
\* order, and nothing for items of other types; a result without text items
\* gives a block with empty content, and the request is made all the same.
C26_ToolResultKeepsTextItemsOnly ==
    /\ pc \in {"pq_loop", "print"} => Len(requests) = 1 + Len(invocations)
    /\ \A k \in 1..Len(invocations) :
         Len(requests) >= k + 1 =>
            LET texts == SelectSeq(invocations[k].result, IsTextItem) IN
            /\ Len(requests[k + 1][Len(requests[k + 1])].content) = 1
            /\ SentToolResult(k).kind = "toolResult"
            /\ Len(SentToolResult(k).content) = Len(texts)
            /\ \A i \in 1..Len(texts) : SentToolResult(k).content[i] = texts[i].text

\* Two requests went out with tool results: one for a result of text, image,
\* text, sent as the two texts, and one for an image alone, sent empty.
C26_Witness ==
    /\ Len(invocations) = 2 /\ Len(requests) = 3
    /\ Len(invocations[1].result) = 3 /\ Len(SentToolResult(1).content) = 2
    /\ invocations[2].result = <<ImageItem>> /\ SentToolResult(2).content = <<>>

KeptInAssistantContent(block) == block.kind \in {"text", "toolUse"}
\* The initial reply's text and tool-use blocks up to and including block n.
BlocksUpTo(n) == SelectSeq(SubSeq(reply, 1, n), KeptInAssistantContent)

\* C27: in every LLM request, the assistant message appended for the k-th
\* tool-use block holds the initial reply's blocks up to and including that
\* tool-use block, and nothing that was processed later.
C27_AssistantMessagesFrozen ==
    \A n \in 1..Len(requests) :
        \A k \in 1..Len(invocations) :
            2 * k <= Len(requests[n]) =>
                /\ requests[n][2 * k].role = "assistant"
                /\ requests[n][2 * k].content = BlocksUpTo(invocations[k].block)

Odd(i) == i % 2 = 1

\* C28: every message list sent to the LLM starts with the user message of
\* the query, alternates between user and assistant roles, and ends with a
\* user message, however many text and tool-use blocks the initial reply has.
C28_RequestsAlternateRoles ==
    \A n \in 1..Len(requests) :
        LET sent == requests[n] IN
        /\ sent # <<>>
        /\ sent[1] = [role |-> "user", content |-> <<TextBlock(query)>>]
        /\ \A i \in 1..Len(sent) : sent[i].role = IF Odd(i) THEN "user" ELSE "assistant"
        /\ sent[Len(sent)].role = "user"
        /\ Len(sent) = 2 * n - 1

\* A request of five messages has been sent for a reply of two tool-use
\* blocks.
C28_Witness ==
    /\ Len(requests) = 3 /\ Len(requests[3]) = 5
    /\ Cardinality(ToolUseIdxs(reply)) = 2
    /\ requests[3][4].role = "assistant" /\ requests[3][5].role = "user"

\* The program is inside the `while True` loop of the chat.
InLoop(at) ==
    at \in {"input", "except", "print", "pq_list_tools", "pq_converse", "pq_loop",
            "pq_followup"}
\* This step reads a line that is `quit` once trimmed and lower-cased.
ReadsQuit == pc = "input" /\ turn' # turn /\ Lower(Untag(query')) = <<"q", "u", "i", "t">>

\* C29 as stated: the chat loop is left exactly by the steps that read
\* `quit`; nothing raised inside an iteration leaves it.
C29_LoopExitsOnlyOnQuit ==
    [][ /\ ReadsQuit => ~InLoop(pc')
        /\ (InLoop(pc) /\ ~InLoop(pc')) => ReadsQuit
      ]_vars

\* C29, amended: the chat loop is left by reading `quit`, and otherwise only
\* by an exception that is no Exception (an interrupt from the keyboard);
\* every Exception raised inside an iteration, end of input included, is
\* printed and the loop reads again.
C29_LoopExitsOnQuitOrInterrupt ==
    [][ /\ ReadsQuit => ~InLoop(pc')
        /\ (InLoop(pc) /\ ~InLoop(pc')) => (ReadsQuit \/ (pc = "except" /\ exc.base))
        /\ (pc = "except" /\ ~exc.base) => pc' = "input"
        /\ (InLoop(pc) /\ exc' # exc /\ exc' # NoExc) => pc' = "except"
      ]_vars

\* End of input was reported and the loop is reading again, nothing released.
C29_Witness ==
    /\ pc = "input"
    /\ printed = << [kind |-> "error", what |-> "EOFError"] >>
    /\ exit_stack # <<>> /\ released = <<>>

\* The latest follow-up reply starts with a block that is no text block.
FollowUpWithoutLeadingText ==
    /\ followups # <<>>
    /\ followups[Len(followups)] # <<>>
    /\ followups[Len(followups)][1].kind # "text"
\* The blocks of the message history.
HistoryBlocks ==
    LET sent == Materialize(messages, assistant_message_content) IN
    UNION { { sent[i].content[j] : j \in 1..Len(sent[i].content) } : i \in 1..Len(sent) }
FollowUpBlocks ==
    UNION { { followups[i][j] : j \in 1..Len(followups[i]) } : i \in 1..Len(followups) }

\* C30: when a follow-up reply starts with a block that is no text block,
\* the call is failing with an error, after the tool was invoked: it returns
\* nothing, the chat loop prints the error and drops the text collected so
\* far; and no block of a follow-up reply is ever in the message history.
C30_FollowUpWithoutTextFailsCall ==
    /\ [](FollowUpWithoutLeadingText =>
            /\ pc = "except" /\ exc = Exc("KeyError")
            /\ response = <<>>
            /\ Len(invocations) = Len(followups)
            /\ final_text # <<>>)
    /\ [](FollowUpBlocks \cap HistoryBlocks = {})
    /\ [][ FollowUpWithoutLeadingText =>
            /\ pc' = "input"
            /\ printed' = Append(printed, [kind |-> "error", what |-> "KeyError"])
            /\ final_text' = <<>> /\ response' = <<>> /\ followups' = <<>>
         ]_vars

\* The follow-up reply to a tool result was another tool-use block: the call
\* is failing, with a text and the diagnostic line already collected.
C30_Witness ==
    /\ FollowUpWithoutLeadingText
    /\ followups[Len(followups)][1].kind = "toolUse"
    /\ pc = "except"
    /\ Len(invocations) = 1
    /\ Len(final_text) = 2

====
